---------------------------- MODULE Spec2Model ----------------------------
(***************************************************************************)
(* A model of the Endroid Music service worker (src/service-worker.js):    *)
(* the three cache tiers, the dual-cache request strategy, the API         *)
(* strategy, background re-validation, the health/repair monitor, the      *)
(* install and activate steps and the CLEAR_CACHE command.                 *)
(*                                                                         *)
(* Every await of the source is a step of its own: tasks interleave at     *)
(* network replies and at cache-storage operations, and a promise          *)
(* continuation runs in the step that settles the promise.  Every          *)
(* cache-storage operation (open, match, put, addAll, delete) either       *)
(* succeeds or is rejected by the storage layer.                           *)
(***************************************************************************)
EXTENDS Integers, Sequences, FiniteSets, TLC

-----------------------------------------------------------------------------
(* Bounds of the model *)

\* request-handling tasks in flight at once
MaxTasks == 2
\* re-validation callbacks in flight at once
MaxRevals == 1
\* fetch events per run
MaxRequests == 1
\* pending re-validation timers per URL
MaxTimers == 1
\* versions the origin server publishes after version 0
MaxVersion == 1
\* CLEAR_CACHE commands per run
MaxClears == 1
\* install steps per run
MaxInstalls == 2
\* runs of the health check per run
MaxChecks == 1
\* leading manifest entries a tier may lack while it holds later ones
MaxSkipped == 1
\* trailing manifest entries a non-empty tier may lack
MaxMissing == 2
\* manifest entries the network does not answer with status 200
MaxFailing == 1
\* leading manifest entries Secondary may hold with a status other than 200
MaxNon200 == 1

-----------------------------------------------------------------------------
(* Program constants *)

CACHE_PRIMARY == "endroid-music-primary-v2.1"
CACHE_SECONDARY == "endroid-music-secondary-v2.1"
CACHE_DATA == "endroid-music-data-v2.1"
\* tiers left behind by an earlier version of the worker
staleCaches == <<"endroid-music-primary-v2.0", "endroid-music-secondary-v2.0">>

currentCaches == <<CACHE_PRIMARY, CACHE_SECONDARY, CACHE_DATA>>
CacheNames ==
  {CACHE_PRIMARY, CACHE_SECONDARY, CACHE_DATA} \cup
  {staleCaches[i] : i \in 1..Len(staleCaches)}

\* The six string literals of the list.  The source lacks the separator
\* between the last two; the list is read as the literals it holds.
CRITICAL_ASSETS ==
  << "/", "/index.html", "/manifest.json", "/icon.svg", "/service-worker.js",
     "https://fonts.googleapis.com/icon?family=Material+Icons" >>

OPTIONAL_ASSETS == << >>

\* the health threshold 0.8, as HealthNum / HealthDen
HealthNum == 8
HealthDen == 10

-----------------------------------------------------------------------------
(* URLs.  A URL is a string in the state; Chars gives its characters, on   *)
(* which the source's string tests are computed.                           *)

Origin == <<"h","t","t","p","s",":","/","/","a",".","b">>

RequestURLs ==
  { "/", "/index.html", "/manifest.json", "/dashboard", "/song.mp3",
    "/song.mp3?v=2", "/api/tracks.json", "chrome-extension://ext/app.js" }

URLs == RequestURLs \cup {CRITICAL_ASSETS[i] : i \in 1..Len(CRITICAL_ASSETS)}

Chars(u) ==
  CASE u = "/" -> <<"/">>
    [] u = "/index.html" -> <<"/","i","n","d","e","x",".","h","t","m","l">>
    [] u = "/manifest.json" ->
         <<"/","m","a","n","i","f","e","s","t",".","j","s","o","n">>
    [] u = "/icon.svg" -> <<"/","i","c","o","n",".","s","v","g">>
    [] u = "/service-worker.js" ->
         <<"/","s","e","r","v","i","c","e","-","w","o","r","k","e","r",".","j","s">>
    [] u = "https://fonts.googleapis.com/icon?family=Material+Icons" ->
         <<"h","t","t","p","s",":","/","/","f","o","n","t","s",".","g","o","o",
           "g","l","e","a","p","i","s",".","c","o","m","/","i","c","o","n","?",
           "f","a","m","i","l","y","=","M","a","t","e","r","i","a","l","+","I",
           "c","o","n","s">>
    [] u = "/dashboard" -> <<"/","d","a","s","h","b","o","a","r","d">>
    [] u = "/song.mp3" -> <<"/","s","o","n","g",".","m","p","3">>
    [] u = "/song.mp3?v=2" -> <<"/","s","o","n","g",".","m","p","3","?","v","=","2">>
    [] u = "/api/tracks.json" ->
         <<"/","a","p","i","/","t","r","a","c","k","s",".","j","s","o","n">>
    [] u = "chrome-extension://ext/app.js" ->
         <<"c","h","r","o","m","e","-","e","x","t","e","n","s","i","o","n",":",
           "/","/","e","x","t","/","a","p","p",".","j","s">>

StartsWith(s, p) == Len(p) <= Len(s) /\ SubSeq(s, 1, Len(p)) = p
EndsWith(s, p) == Len(p) <= Len(s) /\ SubSeq(s, Len(s) - Len(p) + 1, Len(s)) = p
Includes(s, p) ==
  \E i \in 1..(Len(s) - Len(p) + 1) : SubSeq(s, i, i + Len(p) - 1) = p

HasScheme(s) == Includes(s, <<":","/","/">>)

\* request.url: the absolute URL of the request
RequestUrl(u) == IF HasScheme(Chars(u)) THEN Chars(u) ELSE Origin \o Chars(u)

Lower(c) ==
  CASE c = "M" -> "m" [] c = "P" -> "p" [] c = "W" -> "w" [] c = "A" -> "a"
    [] c = "V" -> "v" [] c = "O" -> "o" [] c = "G" -> "g" [] c = "F" -> "f"
    [] c = "L" -> "l" [] c = "C" -> "c" [] c = "I" -> "i"
    [] OTHER -> c
LowerCase(s) == [i \in 1..Len(s) |-> Lower(s[i])]

\* new URL(request.url).pathname: what follows scheme://host, up to ? or #
Pathname(s) ==
  LET sep == CHOOSE i \in 1..Len(s) : SubSeq(s, i, i + 2) = <<":","/","/">>
      rest == SubSeq(s, sep + 3, Len(s))
      slashes == {i \in 1..Len(rest) : rest[i] = "/"}
      from == IF slashes = {} THEN Len(rest) + 1
              ELSE CHOOSE i \in slashes : \A j \in slashes : i <= j
      tail == SubSeq(rest, from, Len(rest))
      cuts == {i \in 1..Len(tail) : tail[i] \in {"?", "#"}}
      upto == IF cuts = {} THEN Len(tail)
              ELSE (CHOOSE i \in cuts : \A j \in cuts : i <= j) - 1
  IN  IF tail = << >> THEN <<"/">> ELSE SubSeq(tail, 1, upto)


-----------------------------------------------------------------------------
(* The tests the source makes on a request *)

\* event.request.method !== 'GET' || url.startsWith('chrome-extension://')
\*   || url.includes('browser-sync')
IsSkipped(u, method) ==
  \/ method # "GET"
  \/ StartsWith(RequestUrl(u),
       <<"c","h","r","o","m","e","-","e","x","t","e","n","s","i","o","n",":","/","/">>)
  \/ Includes(RequestUrl(u), <<"b","r","o","w","s","e","r","-","s","y","n","c">>)

\* url.includes('/api/') || url.includes('.json') && !url.includes('manifest.json')
IsApiRequest(u) ==
  \/ Includes(RequestUrl(u), <<"/","a","p","i","/">>)
  \/ /\ Includes(RequestUrl(u), <<".","j","s","o","n">>)
     /\ ~Includes(RequestUrl(u), <<"m","a","n","i","f","e","s","t",".","j","s","o","n">>)

\* the test without its $ anchor
IsAudioUrlUnanchored(u) ==
  \E ext \in { <<".","m","p","3">>, <<".","w","a","v">>, <<".","o","g","g">>,
               <<".","f","l","a","c">> } :
     Includes(LowerCase(RequestUrl(u)), ext)

\* request.url.match(/\.(mp3|wav|ogg|flac)$/i)
IsAudioUrl(u) ==
  \E ext \in { <<".","m","p","3">>, <<".","w","a","v">>, <<".","o","g","g">>,
               <<".","f","l","a","c">> } :
     EndsWith(LowerCase(RequestUrl(u)), ext)

\* path.endsWith('/') || !path.includes('.')
LooksLikeRoute(u) ==
  LET path == Pathname(RequestUrl(u))
  IN  EndsWith(path, <<"/">>) \/ ~Includes(path, <<".">>)

\* the test for the path '/' alone
IsRootPathOnlySlash(u) == Pathname(RequestUrl(u)) = <<"/">>

\* path === '/' || path === '' || path === '/index.html'
IsRootPath(u) ==
  LET path == Pathname(RequestUrl(u))
  IN  path = <<"/">> \/ path = << >>
        \/ path = <<"/","i","n","d","e","x",".","h","t","m","l">>

\* The URL a key string names, resolved against the worker's own URL
\* (/service-worker.js): 'index.html' names /index.html.
ResolveKey(k) == IF k = "index.html" THEN "/index.html" ELSE k

-----------------------------------------------------------------------------
(* Responses *)

\* a response: its status, the URL it was fetched from and the version of
\* the resource the server sent (url and ver stand for the body)
NetResponse(st, u, v) == [status |-> st, url |-> u, ver |-> v]

\* undefined: a cache miss, or a variable not yet assigned
Absent == [status |-> 0, url |-> "undefined", ver |-> 0]
\* a rejected promise (fetch rejected, respondWith answered by a rejection)
Rejected == [status |-> 0, url |-> "rejected", ver |-> 0]
\* no respondWith: the browser handles the request itself
NotHandled == [status |-> 0, url |-> "not handled", ver |-> 0]

\* new Response(JSON.stringify({ error: 'Offline' }), ...)
OfflineJson == [status |-> 200, url |-> "{error:Offline}", ver |-> 0]
\* the synthesized offline page
OfflineHtml == [status |-> 200, url |-> "offline page", ver |-> 0]
\* new Response('Offline - Resource not available', { status: 404, ... })
Offline404 == [status |-> 404, url |-> "Offline - Resource not available", ver |-> 0]

-----------------------------------------------------------------------------
(* The Cache API.  A cache is its request/response list, here a set of     *)
(* [key, resp] pairs; a handle <<name, n>> names the n-th cache created    *)
(* under a name, and stays usable after the name has been deleted.         *)

Handles == CacheNames \X (0..MaxClears)
NoHandle == <<"none", 0>>

\* cache.match(key)
Match(cache, k) ==
  IF \E p \in cache : p.key = ResolveKey(k)
    THEN (CHOOSE p \in cache : p.key = ResolveKey(k)).resp
    ELSE Absent

\* a put that appends, keeping the pairs already stored under the key
PutDuplicating(cache, k, r) == cache \cup {[key |-> ResolveKey(k), resp |-> r]}

\* cache.put(key, response): the pairs matching the key are replaced
Put(cache, k, r) ==
  {p \in cache : p.key # ResolveKey(k)} \cup {[key |-> ResolveKey(k), resp |-> r]}

Keys(cache) == {p.key : p \in cache}

VARIABLES
  names,    \* caches.keys(): the names of the existing caches, oldest first
  gen,      \* per name, the index of its existing (or next) cache
  store,    \* per handle, the cache's request/response pairs
  server,   \* the version of the site the origin server serves
  tasks,    \* per slot, a request-handling task or a re-validation
  timers,   \* per URL, the pending re-validation timers (setTimeout)
  pageUrl,  \* the URL the controlled page requests in this run
  served    \* the fetch events so far

Exists(n) == \E i \in 1..Len(names) : names[i] = n
Live(n) == IF Exists(n) THEN store[<<n, gen[n]>>] ELSE {}
IsLive(h) == h[1] \in CacheNames /\ Exists(h[1]) /\ gen[h[1]] = h[2]

\* caches.open(name): the existing cache, or a new empty one
Opened(n) == IF Exists(n) THEN names ELSE Append(names, n)
HandleOf(n) == <<n, gen[n]>>

\* caches.match(request): the first match over the caches, oldest first
CachesMatch(k) ==
  LET hits == {i \in 1..Len(names) : Match(Live(names[i]), k) # Absent}
  IN  IF hits = {} THEN Absent
      ELSE Match(Live(names[CHOOSE i \in hits : \A j \in hits : i <= j]), k)


-----------------------------------------------------------------------------
(* Tasks.  A slot holds one run of the fetch listener (kind "dual", "api"  *)
(* or "skip") or one re-validation callback (kind "reval").                *)

Tasks == 1..MaxTasks
Revals == (MaxTasks + 1)..(MaxTasks + MaxRevals)
Slots == Tasks \cup Revals
Tiers == {CACHE_PRIMARY, CACHE_SECONDARY, CACHE_DATA}
allCaches == <<CACHE_PRIMARY, CACHE_SECONDARY>>
offlineCaches == <<CACHE_PRIMARY, CACHE_SECONDARY, CACHE_DATA>>

\* a promise chain caches.open(name).then(cache => cache.put(...))
IdleChain == [st |-> "idle", h |-> NoHandle]
StartedChain == [st |-> "open", h |-> NoHandle]
Settled(c) == c.st \in {"idle", "ok", "fail"}

IdleTask ==
  [ kind   |-> "none",      \* which handler runs in the slot
    url    |-> "",          \* request.url
    mode   |-> "",          \* request.mode
    pc     |-> "idle",      \* the await the task is suspended at
    i      |-> 0,           \* the index of a for loop over cache names
    net    |-> Absent,      \* networkResponse
    hp     |-> NoHandle,    \* primaryCache
    h      |-> NoHandle,    \* the cache opened last
    cached |-> Absent,      \* cachedResponse
    result |-> Absent,      \* what the event was answered with
    via    |-> "",          \* the return statement that answered it
    sched  |-> FALSE,       \* the task has set a re-validation timer
    fault  |-> FALSE,       \* a storage operation of the task was rejected
    found  |-> "",          \* the tier whose lookup found the request
    seen   |-> Absent,      \* Primary's entry for url when cached was read
    seq    |-> 0,           \* the ordinal of the fetch event handled
    lost   |-> {},          \* tiers whose entry for url was overwritten or
                            \* deleted by others after this task wrote it
    ch     |-> [n \in Tiers |-> IdleChain] ]

Free(t) == tasks[t].pc \in {"idle", "done"} /\ \A n \in Tiers : Settled(tasks[t].ch[n])
\* the slot a new task takes: the lowest free one of its kind
IsNextSlot(t, slots) == t \in slots /\ Free(t) /\ \A o \in slots : Free(o) => t <= o

\* the task ends: its local variables are gone
Ended(tk) ==
  [tk EXCEPT !.pc = "done", !.i = 0, !.h = NoHandle, !.hp = NoHandle, !.seen = Absent]
Returned(tk, r, v) == [Ended(tk) EXCEPT !.result = r, !.via = v]
Faulted(tk) == [tk EXCEPT !.fault = TRUE]

\* the catch of the fetch listener: getOfflineResponse(event.request)
Thrown(tk) == [tk EXCEPT !.pc = "off_open", !.i = 1]

\* updateBothCaches returns: handleDualCacheRequest returns networkResponse,
\* the re-validation callback ends
UbcReturned(tk) ==
  IF tk.kind = "dual" THEN Returned(tk, tk.net, "network") ELSE Ended(tk)

\* as if the lookups were tried again after the resolver found nothing
AfterSimilarRetry(tk) == [tk EXCEPT !.pc = "open_p", !.i = 0]

\* handleDualCacheRequest after findSimilarResource returned null
AfterSimilar(tk) ==
  IF tk.mode = "navigate" THEN [tk EXCEPT !.pc = "nav_open", !.i = 1] ELSE Thrown(tk)

\* findSimilarResource(request), up to its first await
SimilarStarted(tk) ==
  IF LooksLikeRoute(tk.url) THEN [tk EXCEPT !.pc = "sim_index_open", !.i = 1]
  ELSE IF IsRootPath(tk.url) THEN [tk EXCEPT !.pc = "sim_root_open", !.i = 1]
  ELSE AfterSimilar(tk)

\* Another actor has put key k through handle h: the tasks that wrote their
\* network response for k into that tier have lost it.
Overwritten(tk, h, k) ==
  IF IsLive(h) /\ tk.pc # "done" /\ tk.net.status = 200 /\ tk.url = ResolveKey(k)
    THEN [tk EXCEPT !.lost = @ \cup {h[1]}]
    ELSE tk
\* The task itself has put its network response through handle h.
Written(tk, h) ==
  IF IsLive(h) THEN [tk EXCEPT !.lost = @ \ {h[1]}] ELSE [tk EXCEPT !.lost = @ \cup {h[1]}]

\* Another actor has deleted tier n.
Deleted(tk, n) ==
  IF tk.pc # "done" /\ tk.net.status = 200 THEN [tk EXCEPT !.lost = @ \cup {n}] ELSE tk

\* tasks after task t has become tk and has put key k through handle h
TasksAfterPut(t, tk, h, k) ==
  [o \in Slots |-> IF o = t THEN tk ELSE Overwritten(tasks[o], h, k)]


VARIABLES
  inst,     \* the install step
  act,      \* the activate step
  hc,       \* the health check (checkCacheHealth and repairCache)
  clr       \* the CLEAR_CACHE command

vars == <<names, gen, store, server, tasks, timers, pageUrl, served, inst, act, hc, clr>>
controlVars == <<inst, act, hc, clr, pageUrl, served>>
lifeVars == <<inst, act, hc, clr, pageUrl>>

Modes == {"navigate", "no-cors"}
Methods == {"GET", "POST"}

\* what fetch(u) can settle with: a rejection, or a response of the server
NetworkOutcomes(u) == {Rejected} \cup {NetResponse(st, u, server) : st \in {200, 404}}

-----------------------------------------------------------------------------
(* The fetch listener *)

\* the listener, up to its first await
FetchEvent(t, u, mode, method) ==
  /\ IsNextSlot(t, Tasks)
  /\ served' = served + 1
  /\ LET req == [IdleTask EXCEPT !.url = u, !.mode = mode, !.seq = served + 1]
     IN  tasks' = [tasks EXCEPT ![t] =
           IF IsSkipped(u, method)
             THEN Returned([req EXCEPT !.kind = "skip"], NotHandled, "not handled")
           ELSE IF IsApiRequest(u) THEN [req EXCEPT !.kind = "api", !.pc = "api_fetch"]
           ELSE [req EXCEPT !.kind = "dual", !.pc = "fetch"]]
  /\ UNCHANGED <<names, gen, store, server, timers, lifeVars>>

\* await fetch(request) settles, in handleDualCacheRequest and in the
\* re-validation callback; on status 200 updateBothCaches starts both chains
NetworkReply(t, r) ==
  /\ tasks[t].pc = "fetch"
  /\ tasks' = [tasks EXCEPT ![t] =
       IF r.status = 200
         THEN [@ EXCEPT !.net = r, !.pc = "ubc_all",
                        !.ch = [n \in Tiers |-> IF n = CACHE_DATA THEN IdleChain
                                                 ELSE StartedChain]]
       ELSE IF @.kind = "dual" THEN [@ EXCEPT !.net = r, !.pc = "open_p"]
       ELSE Ended([@ EXCEPT !.net = r])]
  /\ UNCHANGED <<names, gen, store, server, timers, controlVars>>

-----------------------------------------------------------------------------
(* updateBothCaches *)

\* as if the catch retried against the tier whose write did not fail
ChainFailedOther(tk, n) ==
  LET f == [Faulted(tk) EXCEPT !.ch[n].st = "fail"]
  IN  IF tk.pc = "ubc_all"
        THEN [f EXCEPT !.pc = IF n = CACHE_PRIMARY THEN "r_open_s" ELSE "r_open_p"]
        ELSE f

\* chain n rejects; the first rejection rejects Promise.all and enters the catch
ChainFailed(tk, n) ==
  LET f == [Faulted(tk) EXCEPT !.ch[n].st = "fail"]
  IN  IF tk.pc = "ubc_all" THEN [f EXCEPT !.pc = "r_open_p"] ELSE f

\* as if the first chain to put fulfilled the await (Promise.race)
ChainDoneFirst(tk, n) ==
  LET d == [tk EXCEPT !.ch[n].st = "ok"]
  IN  IF d.pc = "ubc_all" THEN UbcReturned(d) ELSE d

\* chain n has put; Promise.all is fulfilled once both chains have
ChainDone(tk, n) ==
  LET d == [tk EXCEPT !.ch[n].st = "ok"]
  IN  IF d.pc = "ubc_all" /\ d.ch[CACHE_PRIMARY].st = "ok" /\ d.ch[CACHE_SECONDARY].st = "ok"
        THEN UbcReturned(d)
        ELSE d

\* caches.open(name) of a chain settles
ChainOpen(t, n, ok) ==
  /\ tasks[t].ch[n].st = "open"
  /\ IF ok
       THEN /\ names' = Opened(n)
            /\ tasks' = [tasks EXCEPT ![t].ch[n] = [st |-> "put", h |-> HandleOf(n)]]
       ELSE /\ tasks' = [tasks EXCEPT ![t] = ChainFailed(@, n)]
            /\ UNCHANGED names
  /\ UNCHANGED <<gen, store, server, timers, controlVars>>

\* cache.put(requestKey, response.clone()) of a chain settles
ChainPut(t, n, ok) ==
  /\ tasks[t].ch[n].st = "put"
  /\ LET tk == tasks[t]
         h == tk.ch[n].h
     IN  IF ok
           THEN /\ store' = [store EXCEPT ![h] = Put(@, tk.url, tk.net)]
                /\ tasks' = TasksAfterPut(t, Written(ChainDone(tk, n), h), h, tk.url)
           ELSE /\ tasks' = [tasks EXCEPT ![t] = ChainFailed(@, n)]
                /\ UNCHANGED store
  /\ UNCHANGED <<names, gen, server, timers, controlVars>>

\* the catch: caches.open(CACHE_PRIMARY), then caches.open(CACHE_SECONDARY)
RetryOpen(t, ok) ==
  /\ tasks[t].pc \in {"r_open_p", "r_open_s"}
  /\ LET tk == tasks[t]
         n == IF tk.pc = "r_open_p" THEN CACHE_PRIMARY ELSE CACHE_SECONDARY
     IN  IF ok
           THEN /\ names' = Opened(n)
                /\ tasks' = [tasks EXCEPT ![t] =
                     [tk EXCEPT !.h = HandleOf(n),
                                !.pc = IF n = CACHE_PRIMARY THEN "r_put_p" ELSE "r_put_s"]]
           ELSE /\ tasks' = [tasks EXCEPT ![t] =
                     IF n = CACHE_PRIMARY THEN [Faulted(tk) EXCEPT !.pc = "r_open_s"]
                     ELSE UbcReturned(Faulted(tk))]
                /\ UNCHANGED names
  /\ UNCHANGED <<gen, store, server, timers, controlVars>>

\* the catch: primaryCache.put(...), then secondaryCache.put(...)
RetryPut(t, ok) ==
  /\ tasks[t].pc \in {"r_put_p", "r_put_s"}
  /\ LET tk == tasks[t]
     IN  IF ok
           THEN /\ store' = [store EXCEPT ![tk.h] = Put(@, tk.url, tk.net)]
                /\ tasks' = TasksAfterPut(t, Written(UbcReturned(tk), tk.h), tk.h, tk.url)
           ELSE /\ tasks' = [tasks EXCEPT ![t] =
                     IF tk.pc = "r_put_p" THEN [Faulted(tk) EXCEPT !.pc = "r_open_s"]
                     ELSE UbcReturned(Faulted(tk))]
                /\ UNCHANGED store
  /\ UNCHANGED <<names, gen, server, timers, controlVars>>


-----------------------------------------------------------------------------
(* handleDualCacheRequest after a failed network attempt *)

\* as if the timer were set for every URL
SetsTimerAlways(u) == TRUE

\* refreshCacheInBackground(request) sets a timer unless the URL is audio
SetsTimer(u) == ~IsAudioUrl(u)

\* const primaryCache = await caches.open(CACHE_PRIMARY)
OpenPrimary(t, ok) ==
  /\ tasks[t].pc = "open_p"
  /\ IF ok
       THEN /\ names' = Opened(CACHE_PRIMARY)
            /\ tasks' = [tasks EXCEPT ![t] =
                 [@ EXCEPT !.hp = HandleOf(CACHE_PRIMARY), !.pc = "match_p"]]
       ELSE /\ tasks' = [tasks EXCEPT ![t] = Thrown(Faulted(@))]
            /\ UNCHANGED names
  /\ UNCHANGED <<gen, store, server, timers, controlVars>>

\* let cachedResponse = await primaryCache.match(request); a hit calls
\* refreshCacheInBackground and returns
MatchPrimary(t, ok) ==
  /\ tasks[t].pc = "match_p"
  /\ LET tk == tasks[t]
         e == Match(store[tk.hp], tk.url)
     IN  IF ~ok
           THEN /\ tasks' = [tasks EXCEPT ![t] = Thrown(Faulted(tk))]
                /\ UNCHANGED timers
         ELSE IF e # Absent
           THEN IF SetsTimer(tk.url)
                  THEN /\ timers[tk.url] < MaxTimers
                       /\ timers' = [timers EXCEPT ![tk.url] = @ + 1]
                       /\ tasks' = [tasks EXCEPT ![t] =
                            Returned([tk EXCEPT !.cached = e, !.found = CACHE_PRIMARY,
                                               !.sched = TRUE], e, "primary")]
                  ELSE /\ tasks' = [tasks EXCEPT ![t] =
                            Returned([tk EXCEPT !.cached = e, !.found = CACHE_PRIMARY],
                                     e, "primary")]
                       /\ UNCHANGED timers
         ELSE /\ tasks' = [tasks EXCEPT ![t] = [tk EXCEPT !.pc = "open_s"]]
              /\ UNCHANGED timers
  /\ UNCHANGED <<names, gen, store, server, controlVars>>

\* const secondaryCache = await caches.open(CACHE_SECONDARY)
OpenSecondary(t, ok) ==
  /\ tasks[t].pc = "open_s"
  /\ IF ok
       THEN /\ names' = Opened(CACHE_SECONDARY)
            /\ tasks' = [tasks EXCEPT ![t] =
                 [@ EXCEPT !.h = HandleOf(CACHE_SECONDARY), !.pc = "match_s"]]
       ELSE /\ tasks' = [tasks EXCEPT ![t] = Thrown(Faulted(@))]
            /\ UNCHANGED names
  /\ UNCHANGED <<gen, store, server, timers, controlVars>>

\* cachedResponse = await secondaryCache.match(request); a miss calls
\* findSimilarResource
MatchSecondary(t, ok) ==
  /\ tasks[t].pc = "match_s"
  /\ LET tk == tasks[t]
         e == Match(store[tk.h], tk.url)
     IN  tasks' = [tasks EXCEPT ![t] =
           IF ~ok THEN Thrown(Faulted(tk))
           ELSE IF e # Absent
             THEN [tk EXCEPT !.cached = e, !.found = CACHE_SECONDARY, !.pc = "promote",
                             !.seen = Match(store[tk.hp], tk.url)]
           ELSE SimilarStarted(tk)]
  /\ UNCHANGED <<names, gen, store, server, timers, controlVars>>

\* the hit returned without the copy into the primary cache
PromoteSkipped(t, ok) ==
  /\ tasks[t].pc = "promote"
  /\ tasks' = [tasks EXCEPT ![t] =
       IF ok THEN Returned(@, @.cached, "secondary") ELSE Thrown(Faulted(@))]
  /\ UNCHANGED <<names, gen, store, server, timers, controlVars>>

\* await primaryCache.put(request, cachedResponse.clone()); return cachedResponse
Promote(t, ok) ==
  /\ tasks[t].pc = "promote"
  /\ LET tk == tasks[t]
     IN  IF ok
           THEN /\ store' = [store EXCEPT ![tk.hp] = Put(@, tk.url, tk.cached)]
                /\ tasks' = TasksAfterPut(t, Returned(tk, tk.cached, "secondary"),
                                          tk.hp, tk.url)
           ELSE /\ tasks' = [tasks EXCEPT ![t] = Thrown(Faulted(tk))]
                /\ UNCHANGED store
  /\ UNCHANGED <<names, gen, server, timers, controlVars>>

-----------------------------------------------------------------------------
(* findSimilarResource *)

\* const cache = await caches.open(cacheName), in either loop
SimilarOpen(t, ok) ==
  /\ tasks[t].pc \in {"sim_index_open", "sim_root_open"}
  /\ LET tk == tasks[t]
         n == allCaches[tk.i]
     IN  IF ok
           THEN /\ names' = Opened(n)
                /\ tasks' = [tasks EXCEPT ![t] =
                     [tk EXCEPT !.h = HandleOf(n),
                                !.pc = IF tk.pc = "sim_index_open" THEN "sim_index_match"
                                       ELSE "sim_root_match"]]
           ELSE /\ tasks' = [tasks EXCEPT ![t] = Thrown(Faulted(tk))]
                /\ UNCHANGED names
  /\ UNCHANGED <<gen, store, server, timers, controlVars>>

\* const response = await cache.match('/index.html'), or cache.match('/')
SimilarMatch(t, ok) ==
  /\ tasks[t].pc \in {"sim_index_match", "sim_root_match"}
  /\ LET tk == tasks[t]
         index == tk.pc = "sim_index_match"
         e == Match(store[tk.h], IF index THEN "/index.html" ELSE "/")
     IN  tasks' = [tasks EXCEPT ![t] =
           IF ~ok THEN Thrown(Faulted(tk))
           ELSE IF e # Absent THEN Returned(tk, e, "similar")
           ELSE IF tk.i < Len(allCaches)
             THEN [tk EXCEPT !.i = @ + 1,
                             !.pc = IF index THEN "sim_index_open" ELSE "sim_root_open"]
           ELSE IF index /\ IsRootPath(tk.url)
             THEN [tk EXCEPT !.pc = "sim_root_open", !.i = 1]
           ELSE AfterSimilar(tk)]
  /\ UNCHANGED <<names, gen, store, server, timers, controlVars>>

-----------------------------------------------------------------------------
(* getNavigationFallback *)

NavOpen(t, ok) ==
  /\ tasks[t].pc = "nav_open"
  /\ LET tk == tasks[t]
         n == allCaches[tk.i]
     IN  IF ok
           THEN /\ names' = Opened(n)
                /\ tasks' = [tasks EXCEPT ![t] =
                     [tk EXCEPT !.h = HandleOf(n), !.pc = "nav_match"]]
           ELSE /\ tasks' = [tasks EXCEPT ![t] = Thrown(Faulted(tk))]
                /\ UNCHANGED names
  /\ UNCHANGED <<gen, store, server, timers, controlVars>>

\* the first of cache.match('/index.html'), cache.match('/'),
\* cache.match('index.html') that is a response
NavMatch(t, ok) ==
  /\ tasks[t].pc = "nav_match"
  /\ LET tk == tasks[t]
         responses == << Match(store[tk.h], "/index.html"), Match(store[tk.h], "/"),
                         Match(store[tk.h], "index.html") >>
         hits == {j \in 1..3 : responses[j] # Absent}
     IN  tasks' = [tasks EXCEPT ![t] =
           IF ~ok THEN Thrown(Faulted(tk))
           ELSE IF hits # {}
             THEN Returned(tk, responses[CHOOSE j \in hits : \A k \in hits : j <= k],
                           "navigation")
           ELSE IF tk.i < Len(allCaches) THEN [tk EXCEPT !.i = @ + 1, !.pc = "nav_open"]
           ELSE Thrown(tk)]
  /\ UNCHANGED <<names, gen, store, server, timers, controlVars>>

-----------------------------------------------------------------------------
(* getOfflineResponse; a rejection here rejects the promise given to       *)
(* respondWith                                                             *)

OfflineOpen(t, ok) ==
  /\ tasks[t].pc = "off_open"
  /\ LET tk == tasks[t]
         n == offlineCaches[tk.i]
     IN  IF ok
           THEN /\ names' = Opened(n)
                /\ tasks' = [tasks EXCEPT ![t] =
                     [tk EXCEPT !.h = HandleOf(n), !.pc = "off_match"]]
           ELSE /\ tasks' = [tasks EXCEPT ![t] = Returned(Faulted(tk), Rejected, "rejected")]
                /\ UNCHANGED names
  /\ UNCHANGED <<gen, store, server, timers, controlVars>>

OfflineMatch(t, ok) ==
  /\ tasks[t].pc = "off_match"
  /\ LET tk == tasks[t]
         e == Match(store[tk.h], tk.url)
     IN  tasks' = [tasks EXCEPT ![t] =
           IF ~ok THEN Returned(Faulted(tk), Rejected, "rejected")
           ELSE IF e # Absent THEN Returned(tk, e, "offline cache")
           ELSE IF tk.i < Len(offlineCaches) THEN [tk EXCEPT !.i = @ + 1, !.pc = "off_open"]
           ELSE IF tk.mode = "navigate" THEN Returned(tk, OfflineHtml, "offline page")
           ELSE Returned(tk, Offline404, "offline 404")]
  /\ UNCHANGED <<names, gen, store, server, timers, controlVars>>

-----------------------------------------------------------------------------
(* handleApiRequest *)

\* fetch(event.request) settles: a response is returned whatever its status,
\* and one with status 200 is put into the data cache by a detached chain
ApiReply(t, r) ==
  /\ tasks[t].pc = "api_fetch"
  /\ tasks' = [tasks EXCEPT ![t] =
       IF r = Rejected THEN [@ EXCEPT !.net = r, !.pc = "api_match"]
       ELSE Returned([@ EXCEPT !.net = r,
                               !.ch[CACHE_DATA] = IF r.status = 200 THEN StartedChain
                                                  ELSE IdleChain],
                     r, "api network")]
  /\ UNCHANGED <<names, gen, store, server, timers, controlVars>>

\* caches.match(event.request) settles
ApiMatch(t, ok) ==
  /\ tasks[t].pc = "api_match"
  /\ LET tk == tasks[t]
         e == CachesMatch(tk.url)
     IN  tasks' = [tasks EXCEPT ![t] =
           IF ~ok THEN Returned(Faulted(tk), Rejected, "rejected")
           ELSE IF e # Absent THEN Returned([tk EXCEPT !.cached = e], e, "api cache")
           ELSE Returned(tk, OfflineJson, "api offline")]
  /\ UNCHANGED <<names, gen, store, server, timers, controlVars>>

-----------------------------------------------------------------------------
(* Background re-validation and the server *)

\* the timer set by refreshCacheInBackground fires: fetch(request) is issued
TimerFires(t, u) ==
  /\ timers[u] > 0
  /\ IsNextSlot(t, Revals)
  /\ timers' = [timers EXCEPT ![u] = @ - 1]
  /\ tasks' = [tasks EXCEPT ![t] = [IdleTask EXCEPT !.kind = "reval", !.url = u, !.pc = "fetch"]]
  /\ UNCHANGED <<names, gen, store, server, controlVars>>

\* the origin server publishes a new version of the site
Publish ==
  /\ server < MaxVersion
  /\ server' = server + 1
  /\ UNCHANGED <<names, gen, store, tasks, timers, controlVars>>


-----------------------------------------------------------------------------
(* The health/repair monitor: checkCacheHealth and repairCache.  One run   *)
(* at a time; the run is started by the CHECK_CACHE message, by the daily  *)
(* interval or by the sync event.                                          *)

\* as if the Data tier were checked and repaired too
cacheChecksAll == <<CACHE_PRIMARY, CACHE_SECONDARY, CACHE_DATA>>

\* const cacheChecks = [{ name: CACHE_PRIMARY, ... }, { name: CACHE_SECONDARY, ... }]
cacheChecks == <<CACHE_PRIMARY, CACHE_SECONDARY>>
HealthSources == {"message", "interval", "sync"}

IdleHealth ==
  [ pc      |-> "idle",     \* the await the run is suspended at
    from    |-> "",         \* what started the run
    runs    |-> 0,          \* runs started so far
    k       |-> 0,          \* the index of cacheCheck in cacheChecks
    a       |-> 0,          \* the index of asset in CRITICAL_ASSETS
    count   |-> 0,          \* criticalAssetsCount
    healthy |-> [i \in 1..Len(cacheChecks) |-> FALSE],
    h       |-> NoHandle,   \* cache
    dh      |-> NoHandle,   \* healthyCache
    resp    |-> Absent,     \* response, in repairCache
    seen    |-> Absent,     \* the repaired tier's entry when response was read
    cf      |-> {},         \* the checks in which an operation was rejected
    rf      |-> {},         \* the repairs in which an operation was rejected
    replied |-> FALSE ]     \* { success: true } was posted

\* the other tier: cacheName === CACHE_PRIMARY ? CACHE_SECONDARY : CACHE_PRIMARY
healthyCacheName(cacheName) ==
  IF cacheName = CACHE_PRIMARY THEN CACHE_SECONDARY ELSE CACHE_PRIMARY

\* every response found counts, whatever its status
IsCountedAnyStatus(response) == response # Absent

\* response && response.status === 200
IsCounted(response) == response # Absent /\ response.status = 200

\* criticalAssetsCount >= CRITICAL_ASSETS.length * 0.8
MeetsThreshold(count) == HealthDen * count >= HealthNum * Len(CRITICAL_ASSETS)

\* checkCacheHealth returns; the CHECK_CACHE handler then posts its reply
HealthReturned(c) ==
  [c EXCEPT !.pc = "done", !.k = 0, !.a = 0, !.count = 0, !.h = NoHandle,
            !.dh = NoHandle, !.resp = Absent, !.seen = Absent,
            !.replied = (c.from = "message")]

\* as if the second loop ended after its first repair
NextRepairFirstOnly(c) ==
  LET todo == {i \in 1..Len(cacheChecks) : ~c.healthy[i]}
  IN  IF todo = {} \/ c.k > 0 THEN HealthReturned(c)
      ELSE [c EXCEPT !.pc = "r_open", !.k = CHOOSE i \in todo : \A j \in todo : i <= j,
                     !.a = 0, !.count = 0, !.h = NoHandle, !.dh = NoHandle,
                     !.resp = Absent, !.seen = Absent]

\* the second loop of checkCacheHealth, after the cacheCheck of index c.k
NextRepair(c) ==
  LET todo == {i \in (c.k + 1)..Len(cacheChecks) : ~c.healthy[i]}
  IN  IF todo = {} THEN HealthReturned(c)
      ELSE [c EXCEPT !.pc = "r_open", !.k = CHOOSE i \in todo : \A j \in todo : i <= j,
                     !.a = 0, !.count = 0, !.h = NoHandle, !.dh = NoHandle,
                     !.resp = Absent, !.seen = Absent]

\* the first loop of checkCacheHealth, after the cacheCheck of index c.k
NextCheck(c) ==
  IF c.k < Len(cacheChecks)
    THEN [c EXCEPT !.pc = "open", !.k = @ + 1, !.a = 0, !.count = 0, !.h = NoHandle]
    ELSE NextRepair([c EXCEPT !.k = 0])

\* the for loop of repairCache, after the asset of index c.a
NextAsset(c) ==
  IF c.a < Len(CRITICAL_ASSETS)
    THEN [c EXCEPT !.pc = "r_match", !.a = @ + 1, !.resp = Absent, !.seen = Absent]
    ELSE NextRepair(c)

CheckFaulted(c) == [c EXCEPT !.cf = @ \cup {c.k}]
RepairFaulted(c) == [c EXCEPT !.rf = @ \cup {c.k}]

healthOthers == <<server, timers, pageUrl, served, inst, act, clr>>

\* checkCacheHealth() is called, up to its first await
HealthStart(src) ==
  /\ hc.pc \in {"idle", "done"}
  /\ hc' = [IdleHealth EXCEPT !.pc = "open", !.from = src, !.k = 1,
                              !.runs = hc.runs + 1]
  /\ UNCHANGED <<names, gen, store, tasks, healthOthers>>

\* const cache = await caches.open(cacheCheck.name)
HealthOpen(ok) ==
  /\ hc.pc = "open"
  /\ IF ok
       THEN /\ names' = Opened(cacheChecks[hc.k])
            /\ hc' = [hc EXCEPT !.pc = "keys", !.h = HandleOf(cacheChecks[hc.k])]
       ELSE /\ hc' = NextCheck(CheckFaulted(hc))
            /\ UNCHANGED names
  /\ UNCHANGED <<gen, store, tasks, healthOthers>>

\* const keys = await cache.keys()
HealthKeys(ok) ==
  /\ hc.pc = "keys"
  /\ hc' = IF ok THEN [hc EXCEPT !.pc = "match", !.a = 1, !.count = 0]
           ELSE NextCheck(CheckFaulted(hc))
  /\ UNCHANGED <<names, gen, store, tasks, healthOthers>>

\* const response = await cache.match(asset); after the last asset the
\* verdict is assigned
HealthMatch(ok) ==
  /\ hc.pc = "match"
  /\ LET response == Match(store[hc.h], CRITICAL_ASSETS[hc.a])
         n == IF IsCounted(response) THEN hc.count + 1 ELSE hc.count
     IN  hc' = IF ~ok THEN NextCheck(CheckFaulted(hc))
               ELSE IF hc.a < Len(CRITICAL_ASSETS)
                 THEN [hc EXCEPT !.a = @ + 1, !.count = n]
               ELSE NextCheck([hc EXCEPT !.healthy[hc.k] = MeetsThreshold(n)])
  /\ UNCHANGED <<names, gen, store, tasks, healthOthers>>

\* repairCache: const cache = await caches.open(cacheName)
RepairOpen(ok) ==
  /\ hc.pc = "r_open"
  /\ IF ok
       THEN /\ names' = Opened(cacheChecks[hc.k])
            /\ hc' = [hc EXCEPT !.pc = "r_open_donor", !.h = HandleOf(cacheChecks[hc.k])]
       ELSE /\ hc' = NextRepair(RepairFaulted(hc))
            /\ UNCHANGED names
  /\ UNCHANGED <<gen, store, tasks, healthOthers>>

\* repairCache: const healthyCache = await caches.open(healthyCacheName)
RepairOpenDonor(ok) ==
  /\ hc.pc = "r_open_donor"
  /\ LET donor == healthyCacheName(cacheChecks[hc.k])
     IN  IF ok
           THEN /\ names' = Opened(donor)
                /\ hc' = [hc EXCEPT !.pc = "r_match", !.a = 1, !.dh = HandleOf(donor)]
           ELSE /\ hc' = NextRepair(RepairFaulted(hc))
                /\ UNCHANGED names
  /\ UNCHANGED <<gen, store, tasks, healthOthers>>

\* repairCache: const response = await healthyCache.match(asset)
RepairMatch(ok) ==
  /\ hc.pc = "r_match"
  /\ LET response == Match(store[hc.dh], CRITICAL_ASSETS[hc.a])
     IN  hc' = IF ~ok THEN NextAsset(RepairFaulted(hc))
               ELSE IF response # Absent
                 THEN [hc EXCEPT !.pc = "r_put", !.resp = response,
                                 !.seen = Match(store[hc.h], CRITICAL_ASSETS[hc.a])]
               ELSE NextAsset(hc)
  /\ UNCHANGED <<names, gen, store, tasks, healthOthers>>

\* repairCache: await cache.put(asset, response)
RepairPut(ok) ==
  /\ hc.pc = "r_put"
  /\ IF ok
       THEN /\ store' = [store EXCEPT ![hc.h] = Put(@, CRITICAL_ASSETS[hc.a], hc.resp)]
            /\ tasks' = [o \in Slots |->
                           Overwritten(tasks[o], hc.h, CRITICAL_ASSETS[hc.a])]
            /\ hc' = NextAsset(hc)
       ELSE /\ hc' = NextAsset(RepairFaulted(hc))
            /\ UNCHANGED <<store, tasks>>
  /\ UNCHANGED <<names, gen, healthOthers>>

-----------------------------------------------------------------------------
(* caches.delete, as the activate step and the CLEAR_CACHE command use it  *)

\* caches.keys() without the name n
NamesWithout(n) == SelectSeq(names, LAMBDA x : x # n)

\* caches.delete(n) is fulfilled: the name is gone, handles to the cache
\* stay usable, and the next cache opened under the name is a new one
DeleteCache(n) ==
  /\ Exists(n) => gen[n] < MaxClears
  /\ names' = NamesWithout(n)
  /\ gen' = [gen EXCEPT ![n] = IF Exists(n) THEN @ + 1 ELSE @]
  /\ tasks' = [o \in Slots |-> IF Exists(n) THEN Deleted(tasks[o], n) ELSE tasks[o]]

\* the names in a list of cache names
NameSet(cacheNames) == {cacheNames[i] : i \in 1..Len(cacheNames)}

-----------------------------------------------------------------------------
(* The CLEAR_CACHE command of the message listener *)

IdleClear ==
  [ pc      |-> "idle",    \* "keys", "deleting", then "replied" or "failed"
    runs    |-> 0,         \* commands received so far
    pending |-> {},        \* the names whose caches.delete has not settled
    quiet   |-> FALSE,     \* nothing was in flight when the command arrived
    cached  |-> {},        \* the keys the tiers held when the command arrived
    s0      |-> 0,         \* fetch events handled when the command arrived
    s1      |-> 0 ]        \* fetch events handled when the reply was posted

\* a task, a detached chain, a re-validation timer or a health check is
\* under way
InFlight ==
  \/ \E t \in Slots : ~Free(t)
  \/ \E u \in URLs : timers[u] > 0
  \/ hc.pc \notin {"idle", "done"}

\* event.ports[0].postMessage({ success: true })
ClearReplied(c) == [c EXCEPT !.pc = "replied", !.s1 = served]

clearOthers == <<server, timers, pageUrl, served, inst, act, hc>>

\* the message arrives: caches.keys() is called
ClearCommand ==
  /\ clr.pc \in {"idle", "replied", "failed"} /\ clr.pending = {}
  /\ clr' = [IdleClear EXCEPT
               !.pc = "keys", !.runs = clr.runs + 1, !.quiet = ~InFlight,
               !.cached = UNION {Keys(Live(n)) : n \in NameSet(names)},
               !.s0 = served]
  /\ UNCHANGED <<names, gen, store, tasks, clearOthers>>

\* as if the reply were posted without waiting for the deletions
ClearKeysReplying(ok) ==
  /\ clr.pc = "keys"
  /\ clr' = IF ~ok THEN [clr EXCEPT !.pc = "failed"]
            ELSE ClearReplied([clr EXCEPT !.pending = NameSet(names)])
  /\ UNCHANGED <<names, gen, store, tasks, clearOthers>>

\* caches.keys() settles: caches.delete is called for every name
ClearKeys(ok) ==
  /\ clr.pc = "keys"
  /\ clr' = IF ~ok THEN [clr EXCEPT !.pc = "failed"]
            ELSE IF names = << >> THEN ClearReplied(clr)
            ELSE [clr EXCEPT !.pc = "deleting", !.pending = NameSet(names)]
  /\ UNCHANGED <<names, gen, store, tasks, clearOthers>>

\* one caches.delete(cacheName) settles; the reply is posted once all are
\* fulfilled, and never if one is rejected
ClearDelete(n, ok) ==
  /\ n \in clr.pending
  /\ LET left == clr.pending \ {n}
     IN  IF ok
           THEN /\ DeleteCache(n)
                /\ clr' = IF clr.pc = "deleting" /\ left = {}
                            THEN ClearReplied([clr EXCEPT !.pending = left])
                            ELSE [clr EXCEPT !.pending = left]
           ELSE /\ clr' = [clr EXCEPT !.pending = left, !.pc = "failed"]
                /\ UNCHANGED <<names, gen, tasks>>
  /\ UNCHANGED <<store, clearOthers>>

-----------------------------------------------------------------------------
(* The activate step *)

IdleActivate ==
  [ pc      |-> "idle",    \* "keys", "deleting", "done"
    pending |-> {},        \* the names whose caches.delete has not settled
    failed  |-> FALSE,     \* the catch has run
    claimed |-> FALSE,     \* self.clients.claim() was called
    settled |-> "",        \* how the promise given to waitUntil settled
    names   |-> << >>,     \* caches.keys() when the event arrived
    live    |-> [n \in CacheNames |-> {}] ]   \* and the contents of the caches

\* as if every name were deleted
NotCurrentNone(cacheNames) == NameSet(cacheNames)

\* the names with !currentCaches.includes(cacheName)
NotCurrent(cacheNames) == NameSet(cacheNames) \ NameSet(currentCaches)

\* the then after Promise.all: clients.claim() is called
ActivateClaimed(a) == [a EXCEPT !.pc = "done", !.claimed = TRUE, !.settled = "fulfilled"]
\* the catch: the error is logged
ActivateCaught(a) == [a EXCEPT !.pc = "done", !.failed = TRUE, !.settled = "fulfilled"]

activateOthers == <<server, timers, pageUrl, served, inst, hc, clr>>

\* the event arrives: caches.keys() is called
ActivateEvent ==
  /\ act.pc = "idle"
  /\ act' = [IdleActivate EXCEPT !.pc = "keys", !.names = names,
                                 !.live = [n \in CacheNames |-> Live(n)]]
  /\ UNCHANGED <<names, gen, store, tasks, activateOthers>>

\* caches.keys() settles: caches.delete is called for every name that is
\* not current
ActivateKeys(ok) ==
  /\ act.pc = "keys"
  /\ act' = IF ~ok THEN ActivateCaught(act)
            ELSE IF NotCurrent(names) = {} THEN ActivateClaimed(act)
            ELSE [act EXCEPT !.pc = "deleting", !.pending = NotCurrent(names)]
  /\ UNCHANGED <<names, gen, store, tasks, activateOthers>>

\* one caches.delete(cacheName) settles
ActivateDelete(n, ok) ==
  /\ n \in act.pending
  /\ LET left == [act EXCEPT !.pending = @ \ {n}]
     IN  IF ok
           THEN /\ DeleteCache(n)
                /\ act' = IF act.pc = "deleting" /\ left.pending = {}
                            THEN ActivateClaimed(left) ELSE left
           ELSE /\ act' = IF act.pc = "deleting" THEN ActivateCaught(left) ELSE left
                /\ UNCHANGED <<names, gen, tasks>>
  /\ UNCHANGED <<store, activateOthers>>

-----------------------------------------------------------------------------
(* The install step.  The record holds what the network answers for each   *)
(* manifest entry and which storage operation of each tier is rejected;    *)
(* both stay the same over the install steps of a run.                     *)

\* as if addAll stored whatever the network answers
AddAllAcceptsAny(st) == st # 0

\* addAll rejects unless every response is ok (status 200..299) and not 206
AddAllAccepts(st) == st \in 200..299 /\ st # 206

\* what the three chains add: cache.addAll(CRITICAL_ASSETS.map(...)) twice,
\* cache.addAll(OPTIONAL_ASSETS)
AssetsOf(n) == IF n = CACHE_DATA THEN OPTIONAL_ASSETS ELSE CRITICAL_ASSETS

IdleInstall ==
  [ pc      |-> "idle",    \* "running", "done"
    runs    |-> 0,         \* install events so far
    ch      |-> [n \in Tiers |-> "idle"],   \* "open", "add", "ok", "failed"
    h       |-> [n \in Tiers |-> NoHandle], \* cache
    skipped |-> 0,         \* calls of self.skipWaiting()
    settled |-> "",        \* how the promise given to waitUntil settled
    net     |-> [i \in 1..Len(CRITICAL_ASSETS) |-> 200],  \* status; 0: rejected
    fault   |-> [n \in Tiers |-> "none"],   \* "open", "addAll": the rejected one
    names   |-> << >>,     \* caches.keys() after the first install step
    live    |-> [n \in Tiers |-> {}],       \* and the contents of the tiers
    first   |-> [n \in Tiers |-> "idle"] ]  \* and how its chains ended

\* cache.addAll(requests) is fulfilled: every response is stored
RECURSIVE AddAll(_, _, _, _)
AddAll(cache, assets, status, v) ==
  IF assets = << >> THEN cache
  ELSE LET last == Len(assets)
       IN  Put(AddAll(cache, SubSeq(assets, 1, last - 1), status, v),
               assets[last], NetResponse(status[last], assets[last], v))

\* the then after Promise.all: all three chains have settled
InstallSettled(i) ==
  IF \A n \in Tiers : i.ch[n] \in {"ok", "failed"}
    THEN [i EXCEPT !.pc = "done", !.skipped = @ + 1, !.settled = "fulfilled",
                   !.h = [n \in Tiers |-> NoHandle]]
    ELSE i

\* as if a failed chain were not caught: Promise.all is rejected at once and
\* the outer catch calls skipWaiting
InstallChainUncaught(i, n) ==
  [i EXCEPT !.ch[n] = "failed", !.skipped = @ + 1, !.settled = "fulfilled"]

\* the catch of chain n: the error is logged, the chain is fulfilled
InstallChainFailed(i, n) == InstallSettled([i EXCEPT !.ch[n] = "failed"])

\* the contents of the tiers after the first install step are recorded
Recorded(i, after, live) ==
  IF i.pc = "done" /\ i.runs = 1
    THEN [i EXCEPT !.names = after, !.live = live, !.first = i.ch]
    ELSE i

installOthers == <<server, timers, pageUrl, served, act, hc, clr>>

\* the event arrives: the three caches.open are called
InstallEvent ==
  /\ inst.pc \in {"idle", "done"}
  /\ inst' = [inst EXCEPT !.pc = "running", !.runs = @ + 1, !.settled = "",
                          !.ch = [n \in Tiers |-> "open"]]
  /\ UNCHANGED <<names, gen, store, tasks, installOthers>>

\* caches.open(name) of chain n settles
InstallOpen(n) ==
  /\ inst.ch[n] = "open"
  /\ IF inst.fault[n] = "open"
       THEN /\ inst' = Recorded(InstallChainFailed(inst, n), names,
                                [m \in Tiers |-> Live(m)])
            /\ UNCHANGED names
       ELSE /\ names' = Opened(n)
            /\ inst' = [inst EXCEPT !.ch[n] = "add", !.h[n] = HandleOf(n)]
  /\ UNCHANGED <<gen, store, tasks, installOthers>>

\* cache.addAll(...) of chain n settles
InstallAddAll(n) ==
  /\ inst.ch[n] = "add"
  /\ LET assets == AssetsOf(n)
         accepted == \A a \in 1..Len(assets) : AddAllAccepts(inst.net[a])
         after == AddAll(store[inst.h[n]], assets, inst.net, server)
         live == [m \in Tiers |-> IF m = n /\ IsLive(inst.h[n]) THEN after ELSE Live(m)]
     IN  IF inst.fault[n] = "addAll" \/ ~accepted
           THEN /\ inst' = Recorded(InstallChainFailed(inst, n), names,
                                    [m \in Tiers |-> Live(m)])
                /\ UNCHANGED <<store, tasks>>
           ELSE /\ store' = [store EXCEPT ![inst.h[n]] = after]
                /\ tasks' = [o \in Slots |->
                               IF \E a \in 1..Len(assets) :
                                    Overwritten(tasks[o], inst.h[n], assets[a]) # tasks[o]
                                 THEN [tasks[o] EXCEPT !.lost = @ \cup {n}]
                                 ELSE tasks[o]]
                /\ inst' = Recorded(InstallSettled([inst EXCEPT !.ch[n] = "ok"]),
                                    names, live)
  /\ UNCHANGED <<names, gen, installOthers>>

-----------------------------------------------------------------------------
(* Specification Spec: an activated worker serves the requests of a page   *)

\* the entries a tier holds for the keys ks, as the server's version 0 sent them
Entries(ks) == {[key |-> k, resp |-> NetResponse(200, k, 0)] : k \in ks}

\* the keys the handling of a request for u can read in Primary and Secondary
KeysRead(u) ==
  IF IsSkipped(u, "GET") \/ IsApiRequest(u) THEN {} ELSE {u, "/", "/index.html"}

Init ==
  /\ pageUrl \in RequestURLs
  /\ names = currentCaches
  /\ gen = [n \in CacheNames |-> 0]
  /\ \E inP \in SUBSET KeysRead(pageUrl), inS \in SUBSET KeysRead(pageUrl),
        inD \in SUBSET (IF IsApiRequest(pageUrl) THEN {pageUrl} ELSE {}) :
       store = [h \in Handles |->
                  IF h = <<CACHE_PRIMARY, 0>> THEN Entries(inP)
                  ELSE IF h = <<CACHE_SECONDARY, 0>> THEN Entries(inS)
                  ELSE IF h = <<CACHE_DATA, 0>> THEN Entries(inD)
                  ELSE {}]
  /\ server = MaxVersion
  /\ tasks = [t \in Slots |-> IdleTask]
  /\ served = 0
  /\ timers = [u \in URLs |-> 0]
  /\ inst = IdleInstall
  /\ act = IdleActivate
  /\ hc = IdleHealth
  /\ clr = IdleClear

RequestStep(t) ==
  \/ \E r \in NetworkOutcomes(tasks[t].url) : NetworkReply(t, r)
  \/ \E n \in Tiers, ok \in BOOLEAN : ChainOpen(t, n, ok)
  \/ \E n \in Tiers, ok \in BOOLEAN : ChainPut(t, n, ok)
  \/ \E ok \in BOOLEAN : RetryOpen(t, ok)
  \/ \E ok \in BOOLEAN : RetryPut(t, ok)
  \/ \E ok \in BOOLEAN : OpenPrimary(t, ok)
  \/ \E ok \in BOOLEAN : MatchPrimary(t, ok)
  \/ \E ok \in BOOLEAN : OpenSecondary(t, ok)
  \/ \E ok \in BOOLEAN : MatchSecondary(t, ok)
  \/ \E ok \in BOOLEAN : Promote(t, ok)
  \/ \E ok \in BOOLEAN : SimilarOpen(t, ok)
  \/ \E ok \in BOOLEAN : SimilarMatch(t, ok)
  \/ \E ok \in BOOLEAN : NavOpen(t, ok)
  \/ \E ok \in BOOLEAN : NavMatch(t, ok)
  \/ \E ok \in BOOLEAN : OfflineOpen(t, ok)
  \/ \E ok \in BOOLEAN : OfflineMatch(t, ok)
  \/ \E r \in NetworkOutcomes(tasks[t].url) : ApiReply(t, r)
  \/ \E ok \in BOOLEAN : ApiMatch(t, ok)

Next ==
  \/ \E t \in Tasks, mode \in Modes, method \in Methods :
       served < MaxRequests /\ FetchEvent(t, pageUrl, mode, method)
  \/ \E t \in Slots : RequestStep(t)
  \/ \E t \in Revals, u \in URLs : TimerFires(t, u)

Spec == Init /\ [][Next]_vars


-----------------------------------------------------------------------------
(* Claims about request handling, checked under Spec *)

\* task t ends in this step
Completes(t) == tasks[t].pc # "done" /\ tasks'[t].pc = "done"

\* tier n exists and holds response r under key k
HoldsIn(n, k, r) == Exists(n) /\ Match(Live(n), k) = r

\* the same, of the state a step leads to
HoldsInNext(n, k, r) ==
  /\ \E i \in 1..Len(names') : names'[i] = n
  /\ Match(store'[<<n, gen'[n]>>], k) = r

\* the request URLs that end in .mp3, .wav, .ogg or .flac
AudioExtensionURLs == {"/song.mp3"}

\* C1, as claimed: whenever a dual-cache task whose network fetch returned
\* status 200 completes, Primary and Secondary both hold that network
\* response under the request's URL.
C1_BothTiersHoldResponse ==
  [][\A t \in Tasks :
       (Completes(t) /\ tasks'[t].kind = "dual" /\ tasks'[t].net.status = 200)
         => /\ HoldsInNext(CACHE_PRIMARY, tasks'[t].url, tasks'[t].net)
            /\ HoldsInNext(CACHE_SECONDARY, tasks'[t].url, tasks'[t].net)]_vars

\* C1, amended: whenever a dual-cache task whose network fetch returned
\* status 200 completes and none of its cache operations was rejected, each
\* of Primary and Secondary holds that network response under the request's
\* URL, unless another task has overwritten the entry or deleted the tier
\* since this task wrote it.
C1_BothTiersHoldResponseUnlessFaulted ==
  [][\A t \in Tasks :
       (Completes(t) /\ tasks'[t].kind = "dual" /\ tasks'[t].net.status = 200
          /\ ~tasks'[t].fault)
         => \A n \in {CACHE_PRIMARY, CACHE_SECONDARY} :
              n \in tasks'[t].lost \/ HoldsInNext(n, tasks'[t].url, tasks'[t].net)]_vars

C1_Witness ==
  \E t \in Tasks :
    /\ tasks[t].kind = "dual" /\ tasks[t].pc = "done" /\ tasks[t].via = "network"
    /\ tasks[t].net.status = 200 /\ ~tasks[t].fault /\ tasks[t].lost = {}
    /\ HoldsIn(CACHE_PRIMARY, tasks[t].url, tasks[t].net)
    /\ HoldsIn(CACHE_SECONDARY, tasks[t].url, tasks[t].net)

\* C2: when the network attempt has failed and the lookup in Primary finds an
\* entry for the request, the task returns exactly that entry in the same
\* step, and sets a re-validation timer if and only if the URL does not end
\* in an audio extension.
C2_PrimaryHitReturnsEntry ==
  [][\A t \in Tasks :
       LET e == Match(Live(CACHE_PRIMARY), tasks[t].url)
           u == tasks[t].url
       IN  (tasks[t].pc = "match_p" /\ tasks'[t] # tasks[t] /\ ~tasks'[t].fault
              /\ e # Absent)
             => /\ tasks[t].net.status # 200
                /\ tasks'[t].pc = "done"
                /\ tasks'[t].result = e
                /\ (u \notin AudioExtensionURLs) <=>
                     (tasks'[t].sched /\ timers'[u] = timers[u] + 1)
                /\ (u \in AudioExtensionURLs) <=>
                     (~tasks'[t].sched /\ timers' = timers)]_vars

C2_Witness ==
  \E t \in Tasks :
    /\ tasks[t].kind = "dual" /\ tasks[t].pc = "done" /\ tasks[t].via = "primary"
    /\ tasks[t].net.status # 200
    /\ tasks[t].result = Match(Live(CACHE_PRIMARY), tasks[t].url)
    /\ tasks[t].url \notin AudioExtensionURLs
    /\ tasks[t].sched /\ timers[tasks[t].url] = 1

C4_ApiNeverFailsOutward ==
  [][\A t \in Tasks :
       LET e == CachesMatch(tasks[t].url)
       IN  (tasks[t].pc = "api_match" /\ tasks'[t] # tasks[t])
             => /\ tasks'[t].pc = "done"
                /\ tasks'[t].result # Rejected
                /\ e # Absent => tasks'[t].result = e
                /\ e = Absent => tasks'[t].result = OfflineJson]_vars

\* C5, as claimed: a navigation GET request handled by the fetch listener is
\* answered with a network response of status 200, a cached entry, the
\* cached shell or the synthesized offline page; never with the 404 "Offline"
\* response, another body, or a rejection.
C5_NavigationAlwaysDocument ==
  \A t \in Tasks :
    (tasks[t].kind \in {"dual", "api"} /\ tasks[t].mode = "navigate"
       /\ tasks[t].pc = "done")
      => /\ tasks[t].result \notin {Rejected, Offline404, OfflineJson}
         /\ tasks[t].via \in {"network", "api network"} => tasks[t].result.status = 200
         /\ tasks[t].via \in {"network", "api network", "primary", "secondary",
                              "similar", "navigation", "offline cache",
                              "offline page", "api cache"}

-----------------------------------------------------------------------------
(* Specification SpecHealth: the health check runs on tiers that lack some *)
(* of the manifest; nothing else writes the tiers meanwhile.               *)

\* the sets of manifest indices a tier holds at the start
Held ==
  { {} } \cup
  { lo..hi : lo \in 1..(MaxSkipped + 1),
             hi \in (Len(CRITICAL_ASSETS) - MaxMissing)..Len(CRITICAL_ASSETS) }

\* the manifest entries of indices held, of version v; those up to odd have
\* status 203
ManifestEntries(held, v, odd) ==
  { [key |-> ResolveKey(CRITICAL_ASSETS[i]),
     resp |-> NetResponse(IF i <= odd THEN 203 ELSE 200, CRITICAL_ASSETS[i], v)] :
    i \in held }

InitHealth ==
  /\ pageUrl = "/"
  /\ names = currentCaches
  /\ gen = [n \in CacheNames |-> 0]
  /\ \E inP \in Held, inS \in Held, odd \in 0..MaxNon200 :
       store = [h \in Handles |->
                  IF h = <<CACHE_PRIMARY, 0>> THEN ManifestEntries(inP, 0, 0)
                  ELSE IF h = <<CACHE_SECONDARY, 0>> THEN ManifestEntries(inS, 1, odd)
                  ELSE {}]
  /\ server = MaxVersion
  /\ tasks = [t \in Slots |-> IdleTask]
  /\ served = 0
  /\ timers = [u \in URLs |-> 0]
  /\ inst = IdleInstall
  /\ act = IdleActivate
  /\ hc = IdleHealth
  /\ clr = IdleClear

NextHealth ==
  \/ \E src \in HealthSources : hc.runs < MaxChecks /\ HealthStart(src)
  \/ \E ok \in BOOLEAN : HealthOpen(ok)
  \/ \E ok \in BOOLEAN : HealthKeys(ok)
  \/ \E ok \in BOOLEAN : HealthMatch(ok)
  \/ \E ok \in BOOLEAN : RepairOpen(ok)
  \/ \E ok \in BOOLEAN : RepairOpenDonor(ok)
  \/ \E ok \in BOOLEAN : RepairMatch(ok)
  \/ \E ok \in BOOLEAN : RepairPut(ok)

SpecHealth == InitHealth /\ [][NextHealth]_vars

-----------------------------------------------------------------------------
(* Claims about the health check, checked under SpecHealth *)

\* the manifest entries a cache holds with status 200
ManifestCount(cache) ==
  Cardinality({ i \in 1..Len(CRITICAL_ASSETS) :
                  Match(cache, CRITICAL_ASSETS[i]).status = 200 })

\* at least 0.8 times the manifest length
AtLeastEightyPercent(n) == 10 * n >= 8 * Len(CRITICAL_ASSETS)

\* the contents of tier n in the state a step leads to
LiveNext(n) ==
  IF \E i \in 1..Len(names') : names'[i] = n THEN store'[<<n, gen'[n]>>] ELSE {}

\* in the state a step leads to, the tier of index i holds every manifest
\* entry its donor holds
DonorCopiedNext(i) ==
  LET to == LiveNext(cacheChecks[i])
      donor == LiveNext(healthyCacheName(cacheChecks[i]))
  IN  \A a \in 1..Len(CRITICAL_ASSETS) :
        Match(donor, CRITICAL_ASSETS[a]) # Absent
          => Match(to, CRITICAL_ASSETS[a]) = Match(donor, CRITICAL_ASSETS[a])

\* the index of the donor of the tier of index i
DonorIndex(i) ==
  CHOOSE j \in 1..Len(cacheChecks) : cacheChecks[j] = healthyCacheName(cacheChecks[i])

\* this step ends the check, or the repair, of the tier of index i
CheckEnds(i) ==
  /\ hc.pc \in {"open", "keys", "match"} /\ hc.k = i
  /\ hc'.pc \notin {"open", "keys", "match"} \/ hc'.k # i
RepairEnds(i) ==
  /\ hc.pc \in {"r_open", "r_open_donor", "r_match", "r_put"} /\ hc.k = i
  /\ hc'.pc \notin {"r_open", "r_open_donor", "r_match", "r_put"} \/ hc'.k # i

\* C6, as claimed: when the check of a tier ends, its verdict is healthy iff
\* the tier holds at least 0.8 times the manifest length of manifest entries
\* with status 200; every tier judged unhealthy is repaired, and when its
\* repair ends it holds every manifest entry its donor holds, and is itself
\* healthy if the donor was judged healthy.
C6_VerdictAndRepair ==
  [][\A i \in 1..Len(cacheChecks) :
       /\ CheckEnds(i) =>
            (hc'.healthy[i] <=> AtLeastEightyPercent(ManifestCount(Live(cacheChecks[i]))))
       /\ RepairEnds(i) =>
            /\ ~hc.healthy[i]
            /\ DonorCopiedNext(i)
            /\ hc.healthy[DonorIndex(i)] =>
                 AtLeastEightyPercent(ManifestCount(LiveNext(cacheChecks[i])))
       /\ (hc.pc # "done" /\ hc'.pc = "done" /\ ~hc'.healthy[i]) => DonorCopiedNext(i)]_vars

\* C6, amended: when the check of a tier ends without a rejected cache
\* operation, its verdict is healthy iff the tier holds at least 0.8 times
\* the manifest length of manifest entries with status 200, and a check in
\* which a cache operation is rejected ends with the verdict unhealthy;
\* every tier judged unhealthy is repaired, and when its repair ends without
\* a rejected cache operation it holds every manifest entry its donor holds,
\* and is itself healthy if the donor was judged healthy (nothing else
\* writing the tiers meanwhile).
C6_VerdictAndRepairUnlessFaulted ==
  [][\A i \in 1..Len(cacheChecks) :
       /\ (CheckEnds(i) /\ i \notin hc'.cf) =>
            (hc'.healthy[i] <=> AtLeastEightyPercent(ManifestCount(Live(cacheChecks[i]))))
       /\ (CheckEnds(i) /\ i \in hc'.cf) => ~hc'.healthy[i]
       /\ RepairEnds(i) => ~hc.healthy[i]
       /\ (RepairEnds(i) /\ i \notin hc'.rf) =>
            /\ DonorCopiedNext(i)
            /\ hc.healthy[DonorIndex(i)] =>
                 AtLeastEightyPercent(ManifestCount(LiveNext(cacheChecks[i])))
       /\ (hc.pc # "done" /\ hc'.pc = "done" /\ ~hc'.healthy[i]) =>
            \/ i \in hc'.rf
            \/ DonorCopiedNext(i)]_vars

\* an unhealthy Primary has been repaired from a healthy Secondary and now
\* holds the manifest entries Secondary holds
C6_Witness ==
  /\ hc.pc = "done" /\ hc.cf = {} /\ hc.rf = {}
  /\ ~hc.healthy[1] /\ hc.healthy[2]
  /\ AtLeastEightyPercent(ManifestCount(Live(CACHE_PRIMARY)))
  /\ \A a \in 1..Len(CRITICAL_ASSETS) :
       Match(Live(CACHE_SECONDARY), CRITICAL_ASSETS[a]) # Absent
         => Match(Live(CACHE_PRIMARY), CRITICAL_ASSETS[a]).ver = 1

-----------------------------------------------------------------------------
(* Specification SpecClear: a page sends CLEAR_CACHE while its request may *)
(* be in flight, and makes its next request after the reply, once the work *)
(* that was in flight has ended.  A deletion is rejected only while        *)
(* nothing is in flight, and pending re-validation timers do not fire.     *)

\* the URLs the page requests
ClearURLs == {"/dashboard", "/song.mp3", "/api/tracks.json"}

InitClear ==
  /\ pageUrl \in ClearURLs
  /\ names = currentCaches
  /\ gen = [n \in CacheNames |-> 0]
  /\ \E inP \in {{}, KeysRead(pageUrl)} :
       store = [h \in Handles |->
                  IF h = <<CACHE_PRIMARY, 0>> THEN Entries(inP)
                  ELSE IF h = <<CACHE_SECONDARY, 0>> THEN Entries(KeysRead(pageUrl))
                  ELSE IF h = <<CACHE_DATA, 0>> /\ IsApiRequest(pageUrl)
                    THEN Entries({pageUrl})
                  ELSE {}]
  /\ server = MaxVersion
  /\ tasks = [t \in Slots |-> IdleTask]
  /\ served = 0
  /\ timers = [u \in URLs |-> 0]
  /\ inst = IdleInstall
  /\ act = IdleActivate
  /\ hc = IdleHealth
  /\ clr = IdleClear

NextClear ==
  \/ \E t \in Tasks, mode \in Modes :
       /\ clr.pc # "replied" /\ served < MaxRequests
       /\ FetchEvent(t, pageUrl, mode, "GET")
  \/ \E t \in Tasks, mode \in Modes :
       /\ clr.pc = "replied" /\ ~InFlight /\ served < clr.s1 + MaxRequests
       /\ FetchEvent(t, pageUrl, mode, "GET")
  \/ \E t \in Tasks : RequestStep(t)
  \/ clr.runs < MaxClears /\ ClearCommand
  \/ \E ok \in BOOLEAN : ClearKeys(ok)
  \/ \E n \in CacheNames, ok \in BOOLEAN : (ok \/ ~InFlight) /\ ClearDelete(n, ok)

SpecClear == InitClear /\ [][NextClear]_vars

-----------------------------------------------------------------------------
(* Claims about CLEAR_CACHE, checked under SpecClear *)

\* the returns that serve a request from the network or by the offline
\* response
NetworkOrOffline ==
  {"network", "api network", "not handled", "offline page", "offline 404",
   "api offline"}

\* in the state a step leads to: the reply has been posted, and nothing was
\* in flight from the arrival of the command to the reply
QuietlyRepliedNext ==
  clr'.pc = "replied" /\ clr'.quiet /\ clr'.s1 = clr'.s0

\* this step completes the first request made after the reply, no other
\* request having been made since
NextRequestCompletes(t) ==
  /\ Completes(t) /\ clr'.pc = "replied"
  /\ tasks'[t].seq = clr'.s1 + 1 /\ served' = clr'.s1 + 1

-----------------------------------------------------------------------------
(* Specification SpecInstall: the install step runs, and runs again, on    *)
(* tiers that do not exist yet or that hold what an earlier version left.  *)

\* what the network answers for the manifest entries: status 200, 203 or
\* 404, or a rejection (0)
NetworkPlans ==
  { p \in [1..Len(CRITICAL_ASSETS) -> {200, 203, 404, 0}] :
      Cardinality({i \in 1..Len(CRITICAL_ASSETS) : p[i] # 200}) <= MaxFailing }

\* which storage operation of each chain is rejected
FaultPlans == [Tiers -> {"none", "open", "addAll"}]

InitInstall ==
  /\ pageUrl = "/"
  /\ gen = [n \in CacheNames |-> 0]
  /\ \E old \in BOOLEAN :
       /\ names = IF old THEN currentCaches ELSE << >>
       /\ store = [h \in Handles |->
                     IF old /\ h = <<CACHE_PRIMARY, 0>> THEN Entries({"/", "/song.mp3"})
                     ELSE IF old /\ h = <<CACHE_SECONDARY, 0>> THEN Entries({"/"})
                     ELSE IF old /\ h = <<CACHE_DATA, 0>> THEN Entries({"/api/tracks.json"})
                     ELSE {}]
  /\ server = MaxVersion
  /\ tasks = [t \in Slots |-> IdleTask]
  /\ served = 0
  /\ timers = [u \in URLs |-> 0]
  /\ \E net \in NetworkPlans, fault \in FaultPlans :
       inst = [IdleInstall EXCEPT !.net = net, !.fault = fault]
  /\ act = IdleActivate
  /\ hc = IdleHealth
  /\ clr = IdleClear

NextInstall ==
  \/ inst.runs < MaxInstalls /\ InstallEvent
  \/ \E n \in Tiers : InstallOpen(n)
  \/ \E n \in Tiers : InstallAddAll(n)

SpecInstall == InitInstall /\ [][NextInstall]_vars

-----------------------------------------------------------------------------
(* Claims about the install step, checked under SpecInstall *)

\* every key of the cache has exactly one entry
OneEntryPerKey(cache) ==
  \A k \in Keys(cache) : Cardinality({p \in cache : p.key = k}) = 1

\* C8: with the same network answers and storage outcomes in both steps,
\* when a second (or later) install step has completed, the tiers that exist
\* and the contents of Primary, Secondary and Data are those the first
\* install step left, every chain has ended as it did in the first step (an
\* existing tier is opened without error), and every key of every tier has
\* exactly one entry.
C8_InstallIdempotent ==
  /\ \A n \in Tiers : OneEntryPerKey(Live(n))
  /\ (inst.pc = "done" /\ inst.runs >= 2)
       => /\ names = inst.names
          /\ \A n \in Tiers : Live(n) = inst.live[n]
          /\ inst.ch = inst.first

\* a second install step has completed on tiers the first one has
\* overwritten with the manifest
C8_Witness ==
  /\ inst.pc = "done" /\ inst.runs = 2
  /\ \A n \in {CACHE_PRIMARY, CACHE_SECONDARY} : inst.ch[n] = "ok"
  /\ Match(Live(CACHE_PRIMARY), "/") = NetResponse(200, "/", server)
  /\ Match(Live(CACHE_PRIMARY), "/song.mp3") = NetResponse(200, "/song.mp3", 0)
  /\ Cardinality(Live(CACHE_PRIMARY)) = Len(CRITICAL_ASSETS) + 1
  /\ Live(CACHE_PRIMARY) = inst.live[CACHE_PRIMARY]

-----------------------------------------------------------------------------
(* Specification SpecActivate: the activate step runs on the tiers of this *)
(* and of an earlier version.                                              *)

\* the tiers of the earlier version were created before the current ones
allNames == staleCaches \o currentCaches

InitActivate ==
  /\ pageUrl = "/"
  /\ gen = [n \in CacheNames |-> 0]
  /\ \E existing \in SUBSET CacheNames :
       /\ names = SelectSeq(allNames, LAMBDA n : n \in existing)
       /\ store = [h \in Handles |->
                     IF h[1] \in existing /\ h[2] = 0 THEN Entries({"/"}) ELSE {}]
  /\ server = MaxVersion
  /\ tasks = [t \in Slots |-> IdleTask]
  /\ served = 0
  /\ timers = [u \in URLs |-> 0]
  /\ inst = IdleInstall
  /\ act = IdleActivate
  /\ hc = IdleHealth
  /\ clr = IdleClear

NextActivate ==
  \/ ActivateEvent
  \/ \E ok \in BOOLEAN : ActivateKeys(ok)
  \/ \E n \in CacheNames, ok \in BOOLEAN : ActivateDelete(n, ok)

SpecActivate == InitActivate /\ [][NextActivate]_vars

-----------------------------------------------------------------------------
(* Claims about the activate step, checked under SpecActivate *)

\* the current tiers are as they were when the activate event arrived
CurrentUntouched ==
  \A n \in NameSet(currentCaches) :
    /\ Exists(n) <=> n \in NameSet(act.names)
    /\ gen[n] = 0
    /\ Live(n) = act.live[n]

\* a tier that is not one of the three current ones exists
StaleExists == \E n \in NameSet(names) : n \notin {CACHE_PRIMARY, CACHE_SECONDARY, CACHE_DATA}

\* C9, as claimed: when the activate step has completed, no tier other than
\* the three current ones exists, the current tiers are as they were,
\* control has been claimed and the promise given to waitUntil is fulfilled,
\* also when a deletion was rejected.
C9_ActivationCleansAndClaims ==
  act.pc = "done"
    => /\ ~StaleExists
       /\ CurrentUntouched
       /\ act.claimed
       /\ act.settled = "fulfilled"

\* C9, amended: the activate step always completes with the promise given to
\* waitUntil fulfilled, and never deletes or modifies a current tier; when
\* none of its cache operations is rejected, at completion no tier other
\* than the three current ones exists and control has been claimed; when
\* caches.keys() or a deletion is rejected, control is not claimed and tiers
\* that are not current may remain.
C9_ActivationUnlessRejected ==
  /\ act.pc # "idle" => CurrentUntouched
  /\ act.pc = "deleting" => act.pending # {}
  /\ act.pc = "done"
       => /\ act.settled = "fulfilled"
          /\ act.claimed <=> ~act.failed
          /\ ~act.failed => (~StaleExists /\ act.pending = {})

\* both tiers of the earlier version have been deleted, the current ones
\* are left and control has been claimed
C9_Witness ==
  /\ act.pc = "done" /\ act.claimed /\ ~act.failed
  /\ act.names = allNames
  /\ names = currentCaches
  /\ \A n \in NameSet(currentCaches) : Live(n) = Entries({"/"})

\* tier n holds every manifest entry as the network answered it
Populated(n) ==
  /\ Exists(n)
  /\ \A a \in 1..Len(CRITICAL_ASSETS) :
       Match(Live(n), CRITICAL_ASSETS[a]) =
         NetResponse(inst.net[a], CRITICAL_ASSETS[a], server)

\* chain n meets no failure of its own: its storage operations are not
\* rejected and, if it adds the manifest, the network answers every entry
\* with an ok status
MeetsNoFailure(n) ==
  /\ inst.fault[n] = "none"
  /\ n # CACHE_DATA => \A a \in 1..Len(CRITICAL_ASSETS) : inst.net[a] \in {200, 203}

\* C10: for every combination of per-tier success and failure, each chain
\* of the install step ends according to its own failures only, a chain
\* that meets none populates its tier, skipWaiting is called exactly once
\* per install step and only when all three chains have settled, and the
\* promise given to waitUntil is fulfilled; while the step runs, some chain
\* can still settle.
C10_BestEffortInstall ==
  [][/\ inst'.skipped # inst.skipped
          => /\ inst'.skipped = inst.skipped + 1
             /\ \A n \in Tiers : inst'.ch[n] \in {"ok", "failed"}
             /\ inst'.pc = "done" /\ inst'.settled = "fulfilled"
     /\ inst'.pc = "done"
          => /\ inst'.skipped = inst'.runs
             /\ \A n \in Tiers : (inst'.ch[n] = "ok") <=> MeetsNoFailure(n)
             /\ \A n \in {CACHE_PRIMARY, CACHE_SECONDARY} :
                  inst'.ch[n] = "ok" => Populated(n)'
     /\ inst'.pc = "running"
          => \E n \in Tiers : inst'.ch[n] \in {"open", "add"}]_vars

\* Primary's chain has failed, Secondary's and Data's have not: Secondary is
\* populated and skipWaiting has been called
C10_Witness ==
  /\ inst.pc = "done" /\ inst.runs = 1 /\ inst.skipped = 1
  /\ inst.ch[CACHE_PRIMARY] = "failed"
  /\ inst.ch[CACHE_SECONDARY] = "ok" /\ inst.ch[CACHE_DATA] = "ok"
  /\ ~Populated(CACHE_PRIMARY) /\ Populated(CACHE_SECONDARY)

-----------------------------------------------------------------------------
(* Further claims about request handling, checked under Spec *)

\* the request URLs whose path ends in '/' or contains no '.'
RouteURLs == {"/", "/dashboard"}
\* the request URLs whose path is '/', empty or '/index.html'
RootURLs == {"/", "/index.html"}

\* the tier the resolver probes at loop index i
ProbedTier(i) == IF i = 1 THEN CACHE_PRIMARY ELSE CACHE_SECONDARY

\* the resolver has returned null: the task goes on to the navigation
\* fallback or to the offline response
LeftResolver(tk) == tk.pc \in {"nav_open", "off_open"}

\* C11: the resolver is entered after both exact lookups have missed.  For a
\* path that ends in '/' or holds no '.', it probes the key /index.html in
\* Primary and then in Secondary; for a path that is '/', empty or
\* /index.html it (then) probes the key '/' in the same order; it returns
\* the first entry a probe finds, and no entry for any other path.  A
\* navigation to /dashboard with the network down and no exact match is
\* answered with Primary's entry for /index.html when Primary holds it.
\* (Probes that the storage layer rejects find nothing.)
C11_FallbackResolver ==
  [][\A t \in Tasks :
       LET tk == tasks[t]
           nx == tasks'[t]
           u == tk.url
           index == tk.pc = "sim_index_match"
           e == Match(Live(ProbedTier(tk.i)), IF index THEN "/index.html" ELSE "/")
       IN  /\ (tk.pc = "match_s" /\ nx # tk /\ ~nx.fault /\ nx.pc # "promote")
                => /\ u \in RouteURLs => (nx.pc = "sim_index_open" /\ nx.i = 1)
                   /\ u \in RootURLs \ RouteURLs => (nx.pc = "sim_root_open" /\ nx.i = 1)
                   /\ u \notin RouteURLs \cup RootURLs => LeftResolver(nx)
           /\ (tk.pc \in {"sim_index_open", "sim_root_open"} /\ nx # tk /\ ~nx.fault)
                => /\ nx.i = tk.i
                   /\ nx.pc = IF tk.pc = "sim_index_open" THEN "sim_index_match"
                              ELSE "sim_root_match"
           /\ (tk.pc \in {"sim_index_match", "sim_root_match"} /\ nx # tk /\ ~nx.fault)
                => /\ e # Absent => (nx.pc = "done" /\ nx.result = e /\ nx.via = "similar")
                   /\ (e = Absent /\ tk.i = 1)
                        => /\ nx.i = 2
                           /\ nx.pc = IF index THEN "sim_index_open" ELSE "sim_root_open"
                   /\ (e = Absent /\ tk.i = 2 /\ index /\ u \in RootURLs)
                        => (nx.pc = "sim_root_open" /\ nx.i = 1)
                   /\ (e = Absent /\ tk.i = 2 /\ ~(index /\ u \in RootURLs))
                        => LeftResolver(nx)
           /\ (Completes(t) /\ nx.via = "similar")
                => tk.pc \in {"sim_index_match", "sim_root_match"}
           /\ (Completes(t) /\ nx.kind = "dual" /\ u = "/dashboard" /\ ~nx.fault
                 /\ nx.net.status # 200 /\ nx.found = ""
                 /\ Match(Live(CACHE_PRIMARY), "/index.html") # Absent)
                => /\ nx.result = Match(Live(CACHE_PRIMARY), "/index.html")
                   /\ nx.via = "similar"]_vars

\* a navigation to /dashboard with the network down and no exact match has
\* been answered with the shell document Primary holds
C11_Witness ==
  \E t \in Tasks :
    /\ tasks[t].pc = "done" /\ tasks[t].url = "/dashboard" /\ tasks[t].mode = "navigate"
    /\ tasks[t].net = Rejected /\ tasks[t].via = "similar" /\ ~tasks[t].fault
    /\ Match(Live(CACHE_PRIMARY), "/dashboard") = Absent
    /\ Match(Live(CACHE_SECONDARY), "/dashboard") = Absent
    /\ tasks[t].result = NetResponse(200, "/index.html", 0)
    /\ tasks[t].result = Match(Live(CACHE_PRIMARY), "/index.html")

-----------------------------------------------------------------------------
(* Specification SpecRace: requests for the root document, their           *)
(* re-validations and a health check run concurrently on tiers that hold   *)
(* the document as an older version of the server sent it.  No storage     *)
(* operation is rejected.                                                  *)

InitRace ==
  /\ pageUrl = "/"
  /\ names = currentCaches
  /\ gen = [n \in CacheNames |-> 0]
  /\ \E inP \in SUBSET {"/"} :
       store = [h \in Handles |->
                  IF h = <<CACHE_PRIMARY, 0>> THEN Entries(inP)
                  ELSE IF h = <<CACHE_SECONDARY, 0>> THEN Entries({"/"})
                  ELSE {}]
  /\ server = MaxVersion
  /\ tasks = [t \in Slots |-> IdleTask]
  /\ served = 0
  /\ timers = [u \in URLs |-> 0]
  /\ inst = IdleInstall
  /\ act = IdleActivate
  /\ hc = IdleHealth
  /\ clr = IdleClear

NextRace ==
  \/ \E t \in Tasks : served < MaxTasks /\ FetchEvent(t, pageUrl, "navigate", "GET")
  \/ \E t \in Slots : \E r \in NetworkOutcomes(tasks[t].url) : NetworkReply(t, r)
  \/ \E t \in Slots, n \in Tiers : ChainOpen(t, n, TRUE)
  \/ \E t \in Slots, n \in Tiers : ChainPut(t, n, TRUE)
  \/ \E t \in Tasks : OpenPrimary(t, TRUE)
  \/ \E t \in Tasks : MatchPrimary(t, TRUE)
  \/ \E t \in Tasks : OpenSecondary(t, TRUE)
  \/ \E t \in Tasks : MatchSecondary(t, TRUE)
  \/ \E t \in Tasks : Promote(t, TRUE)
  \/ \E t \in Revals, u \in URLs : TimerFires(t, u)
  \/ hc.runs < MaxChecks /\ HealthStart("interval")
  \/ HealthOpen(TRUE)
  \/ HealthKeys(TRUE)
  \/ HealthMatch(TRUE)
  \/ RepairOpen(TRUE)
  \/ RepairOpenDonor(TRUE)
  \/ RepairMatch(TRUE)
  \/ RepairPut(TRUE)

SpecRace == InitRace /\ [][NextRace]_vars

-----------------------------------------------------------------------------
(* Claims about concurrent writers, checked under SpecRace *)

\* a write of the value val, read from a cache tier, replaces the entry now
\* of the written tier; the entry was seen when val was read.  The write is
\* a stale overwrite if now is a response of the server newer than val that
\* was written since val was read.
StaleOverwrite(seen, now, val) ==
  now # Absent /\ now # seen /\ now.url = val.url /\ now.ver > val.ver

\* this step is the promotion write of task t
PromotionWrites(t) ==
  tasks[t].pc = "promote" /\ tasks'[t].pc = "done" /\ tasks'[t].via = "secondary"

\* this step is a write of the repair pass
RepairWrites ==
  /\ hc.pc = "r_put" /\ hc' # hc
  /\ store'[hc.h] = Put(store[hc.h], CRITICAL_ASSETS[hc.a], hc.resp)

\* C12, as claimed: in every interleaving of request-handling tasks,
\* re-validations and repair passes, neither a promotion nor a repair write
\* replaces a network response that was written to the tier after the
\* written value was read from a cache tier and that is newer than it.
C12_NoStaleOverwrite ==
  [][/\ \A t \in Tasks :
          PromotionWrites(t)
            => ~StaleOverwrite(tasks[t].seen, Match(store[tasks[t].hp], tasks[t].url),
                               tasks[t].cached)
     /\ RepairWrites
          => ~StaleOverwrite(hc.seen, Match(store[hc.h], CRITICAL_ASSETS[hc.a]),
                             hc.resp)]_vars

-----------------------------------------------------------------------------
(* Specification SpecLive: Spec under fair scheduling.  Every network      *)
(* request and every cache operation a task waits for eventually settles,  *)
(* and the continuation of a settled promise eventually runs.              *)

SpecLive == Init /\ [][Next]_vars /\ \A t \in Slots : WF_vars(RequestStep(t))

\* the listener has called respondWith and the promise has not settled
Pending(t) == tasks[t].kind \in {"dual", "api"} /\ tasks[t].pc # "done"

\* the event has been answered: with a response, or with a rejection
Answered(t) ==
  /\ tasks[t].pc = "done"
  /\ tasks[t].result = Rejected \/ tasks[t].result.status \in {200, 404}

\* C13: under fair scheduling of network and cache operations, every fetch
\* event the listener has taken up is eventually answered with a response or
\* with a rejection, whatever the method, URL, network outcome and tier
\* contents.
C13_EveryFetchAnswered ==
  \A t \in Tasks : Pending(t) ~> Answered(t)

\* a request has been answered by the last fallback, after the network, both
\* lookups and the resolver have failed
C13_Witness ==
  \E t \in Tasks :
    /\ tasks[t].kind = "dual" /\ tasks[t].pc = "done" /\ tasks[t].net = Rejected
    /\ tasks[t].via = "offline 404" /\ tasks[t].result = Offline404
    /\ tasks[t].url = "/index.html"

-----------------------------------------------------------------------------
(* Claims about updateBothCaches, checked under Spec *)

\* the other of Primary and Secondary
OtherTier(n) == IF n = CACHE_PRIMARY THEN CACHE_SECONDARY ELSE CACHE_PRIMARY

\* the first step of the retry against tier n
RetryAgainst(n) == IF n = CACHE_PRIMARY THEN "r_open_p" ELSE "r_open_s"

\* in this step the parallel write of task t to tier n is the first to fail
FirstWriteFails(t, n) ==
  /\ tasks[t].pc = "ubc_all"
  /\ tasks[t].ch[n].st \in {"open", "put"} /\ tasks'[t].ch[n].st = "fail"

\* task t, whose network fetch returned status 200, ends in this step
PopulationCompletes(t) ==
  /\ Completes(t) /\ tasks'[t].kind = "dual" /\ tasks'[t].net.status = 200

\* tier n holds the response of task t in the state the step leads to,
\* unless other tasks have overwritten or deleted it
KeptNext(t, n) ==
  n \in tasks'[t].lost \/ HoldsInNext(n, tasks'[t].url, tasks'[t].net)

\* C14, as claimed: when the parallel write to one of Primary and Secondary
\* fails, the write is retried against the other tier only; the network
\* response is returned for every combination of failures; and a tier none
\* of whose operations the task saw rejected holds the response when the
\* task completes.
C14_RetryOtherTierOnly ==
  [][\A t \in Slots, n \in {CACHE_PRIMARY, CACHE_SECONDARY} :
       /\ FirstWriteFails(t, n) => tasks'[t].pc = RetryAgainst(OtherTier(n))
       /\ PopulationCompletes(t)
            => /\ tasks'[t].result = tasks'[t].net
               /\ (tasks'[t].ch[n].st # "fail"
                     /\ tasks[t].pc \notin {RetryAgainst(n), "r_put_p", "r_put_s"})
                    => KeptNext(t, n)]_vars

\* C14, amended: when either parallel write fails, the write is retried
\* against Primary, whichever tier failed, and against Secondary only if
\* the retry against Primary fails too; if that fails as well nothing more
\* is done.  The network response is returned for every combination of
\* failures.  When the task completes, Primary holds the response unless
\* the retry against Primary failed, and Secondary holds it if the retry
\* against Secondary succeeded.
C14_RetryPrimaryThenSecondary ==
  [][\A t \in Slots, n \in {CACHE_PRIMARY, CACHE_SECONDARY} :
       LET tk == tasks[t]
           nx == tasks'[t]
       IN  /\ FirstWriteFails(t, n) => nx.pc = "r_open_p"
           /\ (tk.pc = "r_open_p" /\ nx.pc # tk.pc)
                => nx.pc \in {"r_put_p", "r_open_s"}
           /\ (tk.pc = "r_put_p" /\ nx.pc # tk.pc)
                => \/ nx.pc = "r_open_s" /\ store' = store
                   \/ nx.pc = "done" /\ KeptNext(t, CACHE_PRIMARY)
           /\ (tk.pc = "r_open_s" /\ nx.pc # tk.pc) => nx.pc \in {"r_put_s", "done"}
           /\ (tk.pc = "r_put_s" /\ nx.pc # tk.pc) => nx.pc = "done"
           /\ (tk.pc \in {"r_open_s", "r_put_s"} /\ nx.pc = "done" /\ store' # store)
                => KeptNext(t, CACHE_SECONDARY)
           /\ PopulationCompletes(t)
                => /\ nx.result = nx.net /\ nx.via = "network"
                   /\ tk.pc \notin {"r_open_s", "r_put_s"} => KeptNext(t, CACHE_PRIMARY)]_vars

\* the parallel write to Primary has failed, the retry against Primary has
\* succeeded, and the task has returned the network response
C14_Witness ==
  \E t \in Tasks :
    /\ tasks[t].pc = "done" /\ tasks[t].via = "network" /\ tasks[t].result = tasks[t].net
    /\ tasks[t].ch[CACHE_PRIMARY].st = "fail"
    /\ tasks[t].ch[CACHE_SECONDARY].st \in {"open", "put"}
    /\ HoldsIn(CACHE_PRIMARY, tasks[t].url, tasks[t].net)
    /\ ~HoldsIn(CACHE_SECONDARY, tasks[t].url, tasks[t].net)

-----------------------------------------------------------------------------
(* Claims about the API strategy, checked under Spec *)

\* C15, as claimed: for an API-routed request, a rejected fetch and a
\* response of a status other than 200 both lead to the cache lookup; only a
\* network response of status 200 is returned to the requester, and only
\* such a response is written to the Data tier.
C15_ApiFailureLeadsToLookup ==
  [][\A t \in Tasks :
       LET tk == tasks[t]
           nx == tasks'[t]
       IN  /\ (tk.pc = "api_fetch" /\ nx # tk)
                => /\ nx.net.status # 200 => nx.pc = "api_match"
                   /\ nx.net.status = 200
                        => /\ nx.pc = "done" /\ nx.result = nx.net
                           /\ nx.ch[CACHE_DATA].st = "open"
           /\ (Completes(t) /\ nx.kind = "api" /\ nx.via = "api network")
                => nx.result.status = 200
           /\ (nx.kind = "api" /\ nx.ch[CACHE_DATA].st # "idle") => nx.net.status = 200]_vars

-----------------------------------------------------------------------------
(* Claims about the offline response, checked under Spec *)

\* in this step task t enters getOfflineResponse
EntersOffline(t) ==
  tasks[t].pc \notin {"off_open", "off_match"} /\ tasks'[t].pc = "off_open"

\* C16, as claimed: a dual-cache task enters getOfflineResponse only when
\* the network attempt has failed and the lookups in Primary and Secondary,
\* the resolver and (for a navigation) the navigation fallback have all
\* found nothing, none of its cache operations having been rejected; and a
\* rejected cache operation never makes the task answer with a rejection.
C16_OfflineOnlyWhenExhausted ==
  [][\A t \in Tasks :
       /\ EntersOffline(t)
            => /\ tasks[t].net.status # 200
               /\ tasks[t].found = ""
               /\ ~tasks'[t].fault
               /\ tasks[t].pc \in {"match_s", "sim_index_match", "sim_root_match",
                                   "nav_match"}
               /\ tasks[t].mode = "navigate" => tasks[t].pc = "nav_match"
       /\ (Completes(t) /\ tasks'[t].kind = "dual") => tasks'[t].result # Rejected]_vars

-----------------------------------------------------------------------------
(* Claims about background re-validation, checked under Spec *)

\* in this step a re-validation timer is set for URL u
TimerSet(u) == timers'[u] > timers[u]

\* in this step the task t returns Primary's entry after a failed network
\* attempt
PrimaryHitReturns(t) ==
  /\ tasks[t].pc = "match_p" /\ tasks'[t].pc = "done" /\ tasks'[t].via = "primary"
  /\ tasks[t].net.status # 200
  /\ Match(Live(CACHE_PRIMARY), tasks[t].url) # Absent

\* what holds of every re-validation, whatever the storage layer does: a
\* timer is set only by a Primary hit after a failed network attempt and
\* never for a URL that ends in an audio extension; the callback starts
\* only from a timer; a fetch that is rejected or answered with a status
\* other than 200 ends the callback with no tier changed; and the callback
\* answers no event.
RevalidationFrame ==
  /\ \A u \in URLs :
       TimerSet(u) => /\ u \notin AudioExtensionURLs
                      /\ timers'[u] = timers[u] + 1
                      /\ \E t \in Tasks : tasks[t].url = u /\ PrimaryHitReturns(t)
  /\ \A t \in Revals :
       LET tk == tasks[t]
           nx == tasks'[t]
       IN  /\ (tk.pc \in {"idle", "done"} /\ nx.pc = "fetch")
                => /\ nx.kind = "reval" /\ nx.url \notin AudioExtensionURLs
                   /\ timers'[nx.url] = timers[nx.url] - 1
           /\ (tk.pc = "fetch" /\ nx # tk /\ nx.net.status # 200)
                => /\ nx.pc = "done"
                   /\ \A n \in Tiers : Settled(nx.ch[n])
                   /\ store' = store /\ names' = names
                   /\ \A o \in Tasks : tasks'[o] = tasks[o]
           /\ nx.result = Absent

\* C17, as claimed: a re-validation is scheduled only from a Primary hit
\* after a failed network attempt and never for a URL ending in an audio
\* extension; if its fetch returns status 200, then when it ends both
\* Primary and Secondary hold that response under the URL; if the fetch is
\* rejected or returns another status, no tier is changed and nothing
\* reaches a requester.
C17_RevalidationReplacesBoth ==
  [][/\ RevalidationFrame
     /\ \A t \in Revals :
          (Completes(t) /\ tasks'[t].net.status = 200)
            => \A n \in {CACHE_PRIMARY, CACHE_SECONDARY} : KeptNext(t, n)]_vars

\* C17, amended: as claimed, but the response of status 200 is in both
\* Primary and Secondary when the re-validation ends provided none of its
\* cache operations was rejected (and unless another task has overwritten
\* the entry since).
C17_RevalidationReplacesBothUnlessFaulted ==
  [][/\ RevalidationFrame
     /\ \A t \in Revals :
          (Completes(t) /\ tasks'[t].net.status = 200 /\ ~tasks'[t].fault)
            => \A n \in {CACHE_PRIMARY, CACHE_SECONDARY} : KeptNext(t, n)]_vars

\* a re-validation has replaced the older entries of both tiers by the
\* server's current response
C17_Witness ==
  \E t \in Revals, o \in Tasks :
    /\ tasks[t].kind = "reval" /\ tasks[t].pc = "done" /\ ~tasks[t].fault
    /\ tasks[t].net = NetResponse(200, tasks[t].url, server)
    /\ tasks[o].via = "primary" /\ tasks[o].url = tasks[t].url
    /\ tasks[o].result = NetResponse(200, tasks[t].url, 0) /\ server # 0
    /\ HoldsIn(CACHE_PRIMARY, tasks[t].url, tasks[t].net)
    /\ HoldsIn(CACHE_SECONDARY, tasks[t].url, tasks[t].net)

-----------------------------------------------------------------------------
(* Further claims about the health check, checked under SpecHealth *)

\* tier n exists in the state a step leads to
ExistsNext(n) == \E i \in 1..Len(names') : names'[i] = n

\* the tier a repair pass writes, and its donor
RepairedTier == cacheChecks[hc.k]
DonorTier == IF RepairedTier = CACHE_PRIMARY THEN CACHE_SECONDARY ELSE CACHE_PRIMARY

\* the run is in a repair pass
Repairing == hc.pc \in {"r_open", "r_open_donor", "r_match", "r_put"}

\* C18: the monitor holds no handle to the Data tier and never changes it;
\* it changes a tier only by a write of a repair pass into the tier under
\* repair, which it judged unhealthy and which is not the donor; the donor
\* is as it was throughout the pass; and a run that judges both Primary and
\* Secondary healthy makes no write, so it changes no tier at all.
C18_MonitorFrame ==
  [][/\ hc'.h[1] # CACHE_DATA /\ hc'.dh[1] # CACHE_DATA
     /\ LiveNext(CACHE_DATA) = Live(CACHE_DATA)
     /\ ExistsNext(CACHE_DATA) <=> Exists(CACHE_DATA)
     /\ gen' = gen
     /\ \A h \in Handles :
          store'[h] # store[h]
            => /\ hc.pc = "r_put" /\ h = hc.h
               /\ h = <<RepairedTier, gen[RepairedTier]>>
               /\ ~hc.healthy[hc.k]
               /\ h # hc.dh /\ h[1] # DonorTier
     /\ Repairing => LiveNext(DonorTier) = Live(DonorTier)
     /\ Repairing => ~(hc.healthy[1] /\ hc.healthy[2])
     /\ (hc'.pc = "done" /\ hc'.healthy[1] /\ hc'.healthy[2])
          => (~Repairing /\ store' = store /\ names' = names)]_vars

\* Primary, judged unhealthy, has been repaired from Secondary: it holds
\* Secondary's entries, Secondary holds what it held, and Data is empty
C18_Witness ==
  /\ hc.pc = "done" /\ ~hc.healthy[1] /\ hc.healthy[2]
  /\ \E p \in Live(CACHE_PRIMARY) : p.resp.ver = 1
  /\ \A p \in Live(CACHE_SECONDARY) : p.resp.ver = 1
  /\ Cardinality(Live(CACHE_SECONDARY)) >= Len(CRITICAL_ASSETS) - MaxMissing
  /\ Exists(CACHE_DATA) /\ Live(CACHE_DATA) = {}

-----------------------------------------------------------------------------
(* Specification SpecLife: a worker is installed on an origin without      *)
(* tiers, runs its health check and then serves the requests of a page.    *)
(* Of the storage operations of the install step only those of Primary's   *)
(* chain may be rejected, and those of the health check are not rejected.  *)

\* the URLs the page requests
LifeURLs == {"/", "/api/tracks.json"}

\* which storage operation of Primary's chain is rejected
LifeFaultPlans ==
  {f \in FaultPlans : f[CACHE_SECONDARY] = "none" /\ f[CACHE_DATA] = "none"}

InitLife ==
  /\ pageUrl \in LifeURLs
  /\ names = << >>
  /\ gen = [n \in CacheNames |-> 0]
  /\ store = [h \in Handles |-> {}]
  /\ server = MaxVersion
  /\ tasks = [t \in Slots |-> IdleTask]
  /\ served = 0
  /\ timers = [u \in URLs |-> 0]
  /\ \E net \in NetworkPlans, fault \in LifeFaultPlans :
       inst = [IdleInstall EXCEPT !.net = net, !.fault = fault]
  /\ act = IdleActivate
  /\ hc = IdleHealth
  /\ clr = IdleClear

NextLife ==
  \/ inst.pc = "idle" /\ InstallEvent
  \/ \E n \in Tiers : InstallOpen(n)
  \/ \E n \in Tiers : InstallAddAll(n)
  \/ \E t \in Tasks, mode \in Modes :
       /\ inst.pc = "done" /\ hc.pc \in {"idle", "done"} /\ served < MaxRequests
       /\ FetchEvent(t, pageUrl, mode, "GET")
  \/ \E t \in Slots : RequestStep(t)
  \/ \E t \in Revals, u \in URLs : TimerFires(t, u)
  \/ inst.pc = "done" /\ served = 0 /\ hc.runs < MaxChecks /\ HealthStart("sync")
  \/ HealthOpen(TRUE)
  \/ HealthKeys(TRUE)
  \/ HealthMatch(TRUE)
  \/ RepairOpen(TRUE)
  \/ RepairOpenDonor(TRUE)
  \/ RepairMatch(TRUE)
  \/ RepairPut(TRUE)

SpecLife == InitLife /\ [][NextLife]_vars

-----------------------------------------------------------------------------
(* Claims about the stored statuses, checked under SpecLife *)

\* the responses Primary and Secondary hold
StoredResponses ==
  {p.resp : p \in Live(CACHE_PRIMARY) \cup Live(CACHE_SECONDARY)}

\* the dual-cache strategy has returned a network response only if its
\* status is 200
NetworkReturnsOnly200 ==
  \A t \in Tasks :
    (tasks[t].kind = "dual" /\ tasks[t].pc = "done" /\ tasks[t].via = "network")
      => tasks[t].result.status = 200

\* the response is what the network answered for a manifest entry at
\* installation
InstalledAs(r) ==
  \E a \in 1..Len(CRITICAL_ASSETS) :
    r.url = CRITICAL_ASSETS[a] /\ r.status = inst.net[a]

\* C19, as claimed: in every reachable state every entry of Primary and of
\* Secondary has status 200, so every manifest entry present in a tier
\* counts toward its health, and the dual-cache strategy has returned no
\* network response of another status.
C19_OnlyStatus200Stored ==
  /\ \A r \in StoredResponses : r.status = 200 /\ IsCounted(r)
  /\ NetworkReturnsOnly200

\* C19, amended: in every reachable state every entry of Primary and of
\* Secondary has an ok status (200 to 299, not 206); an entry of a status
\* other than 200 is a manifest entry stored as the network answered it at
\* installation (or a copy of it made by promotion or repair) and does not
\* count toward the health of its tier; and the dual-cache strategy has
\* returned no network response of a status other than 200.
C19_OnlyOkStatusStored ==
  /\ \A r \in StoredResponses :
       /\ r.status >= 200 /\ r.status <= 299 /\ r.status # 206
       /\ r.status # 200 => (InstalledAs(r) /\ ~IsCounted(r))
  /\ NetworkReturnsOnly200

\* installation has stored the root document with status 203 in both
\* tiers, and a request for it has been answered with that entry
C19_Witness ==
  /\ inst.pc = "done" /\ inst.net[1] = 203
  /\ \A n \in {CACHE_PRIMARY, CACHE_SECONDARY} : Match(Live(n), "/").status = 203
  /\ \E t \in Tasks :
       /\ tasks[t].pc = "done" /\ tasks[t].via = "primary"
       /\ tasks[t].result = Match(Live(CACHE_PRIMARY), "/")

\* the manifest entries a cache holds, whatever their status
ManifestPresent(cache) ==
  Cardinality({ i \in 1..Len(CRITICAL_ASSETS) : Match(cache, CRITICAL_ASSETS[i]) # Absent })

\* in the state a step leads to, Primary and Secondary hold the same
\* manifest keys with identical entries
SameManifestNext ==
  \A a \in 1..Len(CRITICAL_ASSETS) :
    Match(LiveNext(CACHE_PRIMARY), CRITICAL_ASSETS[a]) =
      Match(LiveNext(CACHE_SECONDARY), CRITICAL_ASSETS[a])

\* the run has met no rejected operation, up to the state a step leads to,
\* and has judged both tiers unhealthy
BothUnhealthyNext ==
  /\ hc'.cf = {} /\ hc'.rf = {}
  /\ hc'.pc \in {"r_open", "r_open_donor", "r_match", "r_put", "done"}
  /\ ~hc'.healthy[1] /\ ~hc'.healthy[2]

\* C20: no step of a health check removes a key from Primary or Secondary,
\* and a key a tier gains is one the other tier holds, so the number of
\* manifest entries of a tier never decreases.  A check that meets no
\* rejected operation and judges both tiers unhealthy repairs Primary from
\* Secondary first, after which Primary holds every manifest entry of
\* Secondary, and then Secondary from the repaired Primary, after which the
\* run ends and both tiers hold the same manifest keys, the union of what
\* they held, with identical entries.
C20_MutualRepair ==
  [][/\ \A n \in {CACHE_PRIMARY, CACHE_SECONDARY} :
          /\ Keys(Live(n)) \subseteq Keys(LiveNext(n))
          /\ (Keys(LiveNext(n)) \ Keys(Live(n))) \subseteq Keys(Live(OtherTier(n)))
          /\ ManifestPresent(LiveNext(n)) >= ManifestPresent(Live(n))
     /\ BothUnhealthyNext
          => /\ (~Repairing /\ hc'.pc # "done") => (hc'.pc = "r_open" /\ hc'.k = 1)
             /\ ~Repairing => hc'.pc # "done"
             /\ RepairEnds(1)
                  => /\ hc'.pc = "r_open" /\ hc'.k = 2
                     /\ DonorCopiedNext(1)
             /\ RepairEnds(2) => (hc'.pc = "done" /\ SameManifestNext)
             /\ (Repairing /\ hc'.pc = "done") => hc.k = 2]_vars

\* both tiers were judged unhealthy and now hold the same manifest entries,
\* some as Primary held them and some as Secondary did
C20_Witness ==
  /\ hc.pc = "done" /\ hc.cf = {} /\ hc.rf = {}
  /\ ~hc.healthy[1] /\ ~hc.healthy[2]
  /\ \A a \in 1..Len(CRITICAL_ASSETS) :
       Match(Live(CACHE_PRIMARY), CRITICAL_ASSETS[a]) =
         Match(Live(CACHE_SECONDARY), CRITICAL_ASSETS[a])
  /\ \E p \in Live(CACHE_SECONDARY) : p.resp.ver = 0
  /\ \E p \in Live(CACHE_PRIMARY) : p.resp.ver = 1
  /\ ManifestPresent(Live(CACHE_PRIMARY)) = Len(CRITICAL_ASSETS) - 1


=============================================================================
